---- MODULE Spec2Model ----
(***************************************************************************)
(* A model of the MealSwipe price-quoting engine: the `quote` edge         *)
(* function (supabase/functions/quote/index.ts), the client hook           *)
(* usePriceQuotes that consumes it, the client code that turns the menu    *)
(* into quote items and a grocery list, and the two copies of              *)
(* normalizeUnit.                                                          *)
(*                                                                         *)
(* Conventions of the model                                                *)
(*  - a string is a sequence of one-character strings, so that trimming    *)
(*    and case conversion are computed, not assumed;                       *)
(*  - null / undefined is the empty sequence <<>>, a present value v is    *)
(*    the one-element sequence <<v>>;                                      *)
(*  - money is counted in pence, quantities and times are integers; a      *)
(*    quotient is an exact fraction [n |-> .., d |-> ..] in lowest terms;  *)
(*  - display-only columns (title, urls, promo text, currency, stock) are  *)
(*    copied through by the code and are left out.                         *)
(***************************************************************************)
EXTENDS Integers, Sequences, FiniteSets, TLC

\* ------------------------------------------------------------------ bounds
\* longest items list of a request
MaxItems == 2
\* longest run of freely chosen mapping rows at the head of the mapping table
MaxMapRows == 2

\* ------------------------------------------------------------ option values
Null == <<>>
Some(v) == <<v>>
IsNull(o) == o = <<>>
Val(o) == o[1]

\* ---------------------------------------------------------------- fractions
Abs(x) == IF x < 0 THEN -x ELSE x

RECURSIVE GCD(_, _)
GCD(a, b) == IF b = 0 THEN a ELSE GCD(b, a % b)

Rat(n, d) == LET g == GCD(Abs(n), d) IN [n |-> n \div g, d |-> d \div g]
RatOfInt(k) == [n |-> k, d |-> 1]
RatAdd(a, b) == Rat(a.n * b.d + b.n * a.d, a.d * b.d)
RatMulInt(a, k) == Rat(a.n * k, a.d)
RatLE(a, b) == a.n * b.d <= b.n * a.d
RatIsZero(a) == a.n = 0

\* Number(x.toFixed(2)) on an amount of pence: the nearest whole penny, a half
\* rounding away from zero.
toFixed2(a) == (IF a.n < 0 THEN -1 ELSE 1) * ((2 * Abs(a.n) + a.d) \div (2 * a.d))

\* ------------------------------------------------------------------ strings
IsSpace(c) == c = " "
LowerLetters ==
    <<"a", "b", "c", "d", "e", "f", "g", "h", "i", "j", "k", "l", "m",
      "n", "o", "p", "q", "r", "s", "t", "u", "v", "w", "x", "y", "z">>
UpperLetters ==
    <<"A", "B", "C", "D", "E", "F", "G", "H", "I", "J", "K", "L", "M",
      "N", "O", "P", "Q", "R", "S", "T", "U", "V", "W", "X", "Y", "Z">>
LowerOf ==
    [c \in {UpperLetters[i] : i \in DOMAIN UpperLetters} |->
        LowerLetters[CHOOSE i \in DOMAIN UpperLetters : UpperLetters[i] = c]]
UpperOf ==
    [c \in {LowerLetters[i] : i \in DOMAIN LowerLetters} |->
        UpperLetters[CHOOSE i \in DOMAIN LowerLetters : LowerLetters[i] = c]]
LowerChar(c) == IF c \in DOMAIN LowerOf THEN LowerOf[c] ELSE c
UpperChar(c) == IF c \in DOMAIN UpperOf THEN UpperOf[c] ELSE c
toLowerCase(s) == [i \in 1..Len(s) |-> LowerChar(s[i])]
toUpperCase(s) == [i \in 1..Len(s) |-> UpperChar(s[i])]

RECURSIVE trimStart(_)
trimStart(s) == IF s # <<>> /\ IsSpace(Head(s)) THEN trimStart(Tail(s)) ELSE s
RECURSIVE trimEnd(_)
trimEnd(s) ==
    IF s # <<>> /\ IsSpace(s[Len(s)]) THEN trimEnd(SubSeq(s, 1, Len(s) - 1)) ELSE s
trim(s) == trimEnd(trimStart(s))

\* parts[0] of s.split(/\s+/) for a trimmed, non-empty s
RECURSIVE firstPart(_)
firstPart(s) ==
    IF s = <<>> \/ IsSpace(Head(s)) THEN <<>> ELSE <<Head(s)>> \o firstPart(Tail(s))

GLOBAL == <<"G", "L", "O", "B", "A", "L">>

extractPostcodeArea(postcode) ==
    IF postcode = <<>> THEN Null
    ELSE LET trimmed == toUpperCase(trim(postcode))
         IN IF trimmed = <<>> THEN Null ELSE firstPart(trimmed)

cachePostcodeOf(postcode) ==
    LET postcodeArea == extractPostcodeArea(postcode)
    IN IF IsNull(postcodeArea) THEN GLOBAL ELSE postcodeArea

normalizeKeyNoTrim(value) == toLowerCase(value)
normalizeKey(value) == toLowerCase(trim(value))

\* --------------------------------------------------------- pure quote maths
isCacheFreshInclusive(cache, nowMs) == cache.ttl_expires_at >= nowMs
isCacheFresh(cache, nowMs) == cache.ttl_expires_at > nowMs

ceilPacksRound(required, packSize) ==
    IF packSize <= 0 THEN 0 ELSE (2 * required + packSize) \div (2 * packSize)
ceilPacks(required, packSize) ==
    IF packSize <= 0 THEN 0 ELSE -((-required) \div packSize)

VARIABLES
    \* the database
    canonical_items,            \* sequence of rows [id, name, unit_type, aliases]
    store_products,             \* sequence of rows [id, store, pack_size_value, pack_size_unit, active]
    canonical_to_store_product, \* sequence of rows [canonical_item_id, store_product_id, priority]
    price_cache,                \* set of rows, one per (store_product_id, postcode_area)
    quote_logs,                 \* sequence of inserted [request, response] rows
    now,                        \* the clock, Date.now()
    \* one invocation of the quote handler
    pc,                         \* position of the handler
    body,                       \* the request: [stores, postcode, items]
    aggregated,                 \* Map canonical id -> {item, requiredValue}, in insertion order
    baseMissingItems,
    nowMs,
    storeIdx,                   \* position of `for (const store of stores)`
    mappingByCanonical,         \* sequence of the selected mapping rows of the current store
    priceCache,                 \* set of the cache rows read for the current store
    quotes,
    responsePayload,
    response,                   \* Null until the handler returns, then <<[status, body]>>
    \* history: which backing-store query failed, and how the log insert ended
    failure,
    logOutcome

quoteVars == <<canonical_items, store_products, canonical_to_store_product, price_cache,
               quote_logs, now, pc, body, aggregated, baseMissingItems, nowMs, storeIdx,
               mappingByCanonical, priceCache, quotes, responsePayload, response,
               failure, logOutcome>>

VARIABLES
    \* the hook usePriceQuotes and the environment that drives it
    hookMounted,                \* the component that uses the hook is mounted
    configured,                 \* isQuoteConfigured(), fixed by the build's environment
    menu,                       \* the payload built from the current menu; "empty" for no menu item
    effectId,                   \* number of runs of the effect; names the closure of a run
    liveEffect,                 \* the run whose isMounted is still true, 0 when there is none
    timer,                      \* the run whose debounce timer is pending, 0 when there is none
    inFlight,                   \* the runs whose postQuote has not settled yet
    hookQuotes,                 \* state `quotes`
    hookError,                  \* state `error`
    isLoading,
    lastSuccessRef,
    uncaught,                   \* a rejection left the timer callback
    \* history of the requests whose result the hook took
    lastOutcome,                \* "none", "success" or "failure": how the latest of them ended
    lastGood,                   \* the response of the latest successful one
    clearedSince                \* the error was cleared after it: a newer request started,
                                \* or the menu became empty

hookVars == <<hookMounted, configured, menu, effectId, liveEffect, timer, inFlight,
              hookQuotes, hookError, isLoading, lastSuccessRef, uncaught,
              lastOutcome, lastGood, clearedSince>>

VARIABLES
    \* a client that sends the same request a second time
    firstCall                   \* Null, or <<[quotes, nowMs]>> of the first call's 200 response

callVars == <<firstCall>>

VARIABLES
    \* the app's menu and what the client derives from it
    stateMenu,                  \* state.menu: sequence of [recipeId, servings]
    quoteItems,                 \* Null, or <<the items buildQuoteItems made of the menu>>
    groceryList                 \* Null, or <<state.groceryList after generateGroceryList>>

basketVars == <<stateMenu, quoteItems, groceryList>>

VARIABLES
    \* one unit and value handed to the two copies of normalizeUnit
    unitArg,
    valueArg,
    appNormalized,              \* Null, or <<the result of the app's copy>>
    seedNormalized              \* Null, or <<the result of the seeding script's copy>>

unitVars == <<unitArg, valueArg, appNormalized, seedNormalized>>

VARIABLES
    \* one invocation of the refresh-prices handler
    refreshPc,                  \* position of the handler
    refreshBody,                \* the request: [stores, storeProductIds, postcode, force, limit]
    bulk,                       \* the provider has getProductPrices
    storeProducts,              \* the selected store_products rows
    cacheMap,                   \* the cache rows read for them
    refreshNowMs,               \* the handler's nowMs
    refreshed,
    skippedFresh,
    failed,
    errors,                     \* sequence of [storeProductId, reason]
    batches,                    \* the provider calls still to make, each a sequence of products
    batch,                      \* the products of the current call still to upsert, and
                                \* the ids the provider returned a price for
    refreshResponse,            \* Null until the handler returns, then <<[status, body]>>
    \* history of the refreshes
    fetchedIds,                 \* ids of the products the current run asked the provider for
    refreshRuns,                \* number of runs started
    cacheVersions               \* every row price_cache has held

refreshVars == <<refreshPc, refreshBody, bulk, storeProducts, cacheMap, refreshNowMs,
                 refreshed, skippedFresh, failed, errors, batches, batch, refreshResponse,
                 fetchedIds, refreshRuns, cacheVersions>>

VARIABLES
    \* the rest of the app's state next to state.menu and state.groceryList
    stateFilters,
    statePreferences,
    lastAction                  \* history: Null, or <<the action dispatched last>>

appVars == <<stateFilters, statePreferences, lastAction>>

\* everything the quote handler leaves alone
nonQuoteVars == <<hookVars, callVars, basketVars, unitVars, refreshVars, appVars>>
\* everything the hook leaves alone
nonHookVars == <<quoteVars, callVars, basketVars, unitVars, refreshVars, appVars>>
\* everything the menu's derivations leave alone
nonBasketVars == <<quoteVars, hookVars, callVars, unitVars, refreshVars, appVars>>
\* everything a call of normalizeUnit leaves alone
nonUnitVars == <<quoteVars, hookVars, callVars, basketVars, refreshVars, appVars>>
\* everything the refresh handler leaves alone: all but its own state and price_cache
nonRefreshVars == <<canonical_items, store_products, canonical_to_store_product,
                    quote_logs, now, pc, body, aggregated, baseMissingItems, nowMs,
                    storeIdx, mappingByCanonical, priceCache, quotes, responsePayload,
                    response, failure, logOutcome,
                    hookVars, callVars, basketVars, unitVars, appVars>>
\* everything the reducer leaves alone
nonAppVars == <<quoteVars, hookVars, callVars, unitVars, refreshVars, quoteItems>>

vars == <<quoteVars, hookVars, callVars, basketVars, unitVars, refreshVars, appVars>>

\* ------------------------------------------------- the handler's computations
\* canonicalLookup.get(key): rows register their name, then their aliases, in
\* row order, and a later Map.set of the same key replaces an earlier one.
RowHasKey(row, key) ==
    \/ normalizeKey(row.name) = key
    \/ \E a \in 1..Len(row.aliases) : normalizeKey(row.aliases[a]) = key

\* a lookup that also accepts a key that merely starts with a registered name
RowHasKeyPrefix(row, key) ==
    \E k \in {normalizeKey(row.name)} \cup {normalizeKey(row.aliases[a]) : a \in 1..Len(row.aliases)} :
        Len(k) <= Len(key) /\ SubSeq(key, 1, Len(k)) = k

canonicalLookupGetPartial(canonicalRows, key) ==
    LET hits == {i \in 1..Len(canonicalRows) : RowHasKeyPrefix(canonicalRows[i], key)}
    IN IF hits = {} THEN Null
       ELSE Some(canonicalRows[CHOOSE i \in hits : \A j \in hits : j <= i])

canonicalLookupGet(canonicalRows, key) ==
    LET hits == {i \in 1..Len(canonicalRows) : RowHasKey(canonicalRows[i], key)}
    IN IF hits = {} THEN Null
       ELSE Some(canonicalRows[CHOOSE i \in hits : \A j \in hits : j <= i])

\* position of canonical id `id` in the aggregated Map, 0 when absent
AggIndex(agg, id) ==
    IF \E i \in 1..Len(agg) : agg[i].item.id = id
    THEN CHOOSE i \in 1..Len(agg) : agg[i].item.id = id
    ELSE 0

\* lines 152-157: add the value to the existing entry, or insert a new one
accumulatePerItem(agg, canonical, value) ==
    Append(agg, [item |-> canonical, requiredValue |-> value])
accumulate(agg, canonical, value) ==
    LET k == AggIndex(agg, canonical.id)
    IN IF k # 0
       THEN [agg EXCEPT ![k].requiredValue = @ + value]
       ELSE Append(agg, [item |-> canonical, requiredValue |-> value])

\* The aggregation loop over the request items, from item i on.  An item whose
\* `required` is missing makes `item.required.unit` throw a TypeError, but only
\* once its name has resolved (line 144).
RECURSIVE Aggregate(_, _, _, _, _)
Aggregate(canonicalRows, items, i, agg, missing) ==
    IF i > Len(items)
    THEN [aggregated |-> agg, baseMissingItems |-> missing, threw |-> FALSE]
    ELSE LET item == items[i]
             canonical == canonicalLookupGet(canonicalRows, normalizeKey(item.ingredientName))
         IN IF IsNull(canonical)
            THEN Aggregate(canonicalRows, items, i + 1, agg,
                           Append(missing, [ingredientName |-> item.ingredientName,
                                            reason |-> "no_canonical_match"]))
            ELSE IF IsNull(item.required)
            THEN [aggregated |-> agg, baseMissingItems |-> missing, threw |-> TRUE]
            ELSE IF Val(canonical).unit_type # Val(item.required).unit
            THEN Aggregate(canonicalRows, items, i + 1, agg,
                           Append(missing, [ingredientName |-> item.ingredientName,
                                            reason |-> "unit_mismatch"]))
            ELSE Aggregate(canonicalRows, items, i + 1,
                           accumulate(agg, Val(canonical), Val(item.required).value),
                           missing)

canonicalIdsOf(agg) == {agg[i].item.id : i \in 1..Len(agg)}

\* The mapping query of one store: the rows of canonical_to_store_product whose
\* canonical_item_id is requested, in table order, each with its store product
\* embedded when that product is of the store and active, and null otherwise.
ProductById(products, id) ==
    products[CHOOSE i \in 1..Len(products) : products[i].id = id]

\* the embedding without the filter on store_products.store
EmbedProductAnyStore(products, row, store) ==
    LET p == ProductById(products, row.store_product_id)
    IN [canonical_item_id |-> row.canonical_item_id,
        priority |-> row.priority,
        store_products |-> IF p.active THEN Some(p) ELSE Null]

EmbedProduct(products, row, store) ==
    LET p == ProductById(products, row.store_product_id)
    IN [canonical_item_id |-> row.canonical_item_id,
        priority |-> row.priority,
        store_products |-> IF p.store = store /\ p.active THEN Some(p) ELSE Null]

RECURSIVE SelectMappingRows(_, _, _, _)
SelectMappingRows(mappings, products, canonicalIds, store) ==
    IF mappings = <<>> THEN <<>>
    ELSE LET rest == SelectMappingRows(Tail(mappings), products, canonicalIds, store)
         IN IF Head(mappings).canonical_item_id \in canonicalIds
            THEN <<EmbedProduct(products, Head(mappings), store)>> \o rest
            ELSE rest

\* line 183: does the row replace the entry the Map already holds?
replacesExisting(existing, row) ==
    IsNull(existing) \/ row.priority >= Val(existing).priority

\* mappingByCanonical after the forEach over the first n mapping rows, as the
\* Map's entry for canonical id `id` (Null when there is none)
RECURSIVE mappingGet(_, _, _)
mappingGet(mappingRows, n, id) ==
    IF n = 0 THEN Null
    ELSE LET existing == mappingGet(mappingRows, n - 1, id)
             row == mappingRows[n]
         IN IF IsNull(row.store_products) \/ row.canonical_item_id # id THEN existing
            ELSE IF replacesExisting(existing, row) THEN Some(row)
            ELSE existing

\* the values of mappingByCanonical, as a sequence in the order of the ids of agg
RECURSIVE BuildMappingByCanonical(_, _)
BuildMappingByCanonical(mappingRows, agg) ==
    IF agg = <<>> THEN <<>>
    ELSE LET m == mappingGet(mappingRows, Len(mappingRows), Head(agg).item.id)
         IN m \o BuildMappingByCanonical(mappingRows, Tail(agg))

mappingByCanonicalGet(byCanonical, id) ==
    IF \E i \in 1..Len(byCanonical) : byCanonical[i].canonical_item_id = id
    THEN Some(byCanonical[CHOOSE i \in 1..Len(byCanonical) : byCanonical[i].canonical_item_id = id])
    ELSE Null

storeProductIdsOf(byCanonical) ==
    {Val(byCanonical[i].store_products).id : i \in 1..Len(byCanonical)}

\* the price_cache query: the rows of the products asked for, in one bucket
SelectCacheRowsAnyBucket(cache, storeProductIds, cachePostcode) ==
    {row \in cache : row.store_product_id \in storeProductIds}
SelectCacheRows(cache, storeProductIds, cachePostcode) ==
    {row \in cache : row.store_product_id \in storeProductIds
                      /\ row.postcode_area = cachePostcode}

priceCacheGet(rows, id) ==
    IF \E row \in rows : row.store_product_id = id
    THEN Some(CHOOSE row \in rows : row.store_product_id = id)
    ELSE Null

\* lines 252-256 of the line-item loop
unitPriceOf(priceRow, packSize) ==
    IF ~IsNull(priceRow.unit_price) THEN priceRow.unit_price
    ELSE IF packSize > 0 THEN Some(Rat(priceRow.price, packSize))
    ELSE Null

\* a JavaScript truthiness test of a number | null
Truthy(unitPrice) == ~IsNull(unitPrice) /\ ~RatIsZero(Val(unitPrice))

consumedCostOf(unitPrice, requiredValue, lineTotal) ==
    IF Truthy(unitPrice) THEN RatMulInt(Val(unitPrice), requiredValue) ELSE lineTotal

\* the freshness decided on the row price_cache holds now, not on the row read
priceSourceOfLatest(priceRow, nowMsArg) ==
    LET latest == CHOOSE row \in price_cache :
                      /\ row.store_product_id = priceRow.store_product_id
                      /\ row.postcode_area = priceRow.postcode_area
    IN IF isCacheFresh(latest, nowMsArg) THEN "cached" ELSE "stale"

priceSourceOf(priceRow, nowMsArg) ==
    IF isCacheFresh(priceRow, nowMsArg) THEN "cached" ELSE "stale"

LineItem(aggregatedItem, storeProduct, priceRow, nowMsArg) ==
    LET packSize == storeProduct.pack_size_value
        packsNeeded == ceilPacks(aggregatedItem.requiredValue, packSize)
        lineTotal == RatOfInt(packsNeeded * priceRow.price)
        unitPrice == unitPriceOf(priceRow, packSize)
        consumedCost == consumedCostOf(unitPrice, aggregatedItem.requiredValue, lineTotal)
    IN [canonicalItemId |-> aggregatedItem.item.id,
        canonicalName |-> aggregatedItem.item.name,
        storeProductId |-> storeProduct.id,
        packSize |-> [value |-> packSize, unit |-> storeProduct.pack_size_unit],
        required |-> [value |-> aggregatedItem.requiredValue,
                      unit |-> aggregatedItem.item.unit_type],
        packsNeeded |-> packsNeeded,
        price |-> priceRow.price,
        unitPrice |-> IF Truthy(unitPrice) THEN unitPrice ELSE Null,
        lineTotal |-> lineTotal,
        consumedEstimate |-> consumedCost,
        priceSource |-> priceSourceOf(priceRow, nowMsArg),
        fetchedAt |-> priceRow.fetched_at]

Missing(name, reason) == [ingredientName |-> name, reason |-> reason]

\* what one pass of the line-item loop (lines 217-292) does to the accumulators
QuoteStepStaleIsMissing(acc, aggregatedItem, byCanonical, cacheRows, nowMsArg) ==
    LET mapping == mappingByCanonicalGet(byCanonical, aggregatedItem.item.id)
        name == aggregatedItem.item.name
    IN IF IsNull(mapping) \/ IsNull(Val(mapping).store_products)
       THEN [acc EXCEPT !.missingItems = Append(@, Missing(name, "no_store_mapping"))]
       ELSE LET storeProduct == Val(Val(mapping).store_products)
                priceRow == priceCacheGet(cacheRows, storeProduct.id)
            IN IF storeProduct.pack_size_unit # aggregatedItem.item.unit_type
               THEN [acc EXCEPT !.missingItems = Append(@, Missing(name, "unit_mismatch"))]
               ELSE IF IsNull(priceRow) \/ ~isCacheFresh(Val(priceRow), nowMsArg)
               THEN [acc EXCEPT !.missingItems = Append(@, Missing(name, "no_cached_price"))]
               ELSE LET line == LineItem(aggregatedItem, storeProduct, Val(priceRow), nowMsArg)
                    IN [acc EXCEPT
                          !.lineItems = Append(@, line),
                          !.basketTotal = RatAdd(@, line.lineTotal),
                          !.consumedEstimate = RatAdd(@, line.consumedEstimate),
                          !.latestUpdateMs = IF line.fetchedAt > @ THEN line.fetchedAt ELSE @]

QuoteStepSkipsUnpriced(acc, aggregatedItem, byCanonical, cacheRows, nowMsArg) ==
    LET mapping == mappingByCanonicalGet(byCanonical, aggregatedItem.item.id)
        name == aggregatedItem.item.name
    IN IF IsNull(mapping) \/ IsNull(Val(mapping).store_products)
       THEN [acc EXCEPT !.missingItems = Append(@, Missing(name, "no_store_mapping"))]
       ELSE LET storeProduct == Val(Val(mapping).store_products)
                priceRow == priceCacheGet(cacheRows, storeProduct.id)
            IN IF storeProduct.pack_size_unit # aggregatedItem.item.unit_type
               THEN [acc EXCEPT !.missingItems = Append(@, Missing(name, "unit_mismatch"))]
               ELSE IF IsNull(priceRow)
               THEN acc
               ELSE LET line == LineItem(aggregatedItem, storeProduct, Val(priceRow), nowMsArg)
                    IN [acc EXCEPT
                          !.lineItems = Append(@, line),
                          !.basketTotal = RatAdd(@, line.lineTotal),
                          !.consumedEstimate = RatAdd(@, line.consumedEstimate),
                          !.latestUpdateMs = IF line.fetchedAt > @ THEN line.fetchedAt ELSE @,
                          !.staleCount = IF line.priceSource = "stale" THEN @ + 1 ELSE @]

\* the pass without the pack-unit check of lines 227-234
QuoteStepAnyUnit(acc, aggregatedItem, byCanonical, cacheRows, nowMsArg) ==
    LET mapping == mappingByCanonicalGet(byCanonical, aggregatedItem.item.id)
        name == aggregatedItem.item.name
    IN IF IsNull(mapping) \/ IsNull(Val(mapping).store_products)
       THEN [acc EXCEPT !.missingItems = Append(@, Missing(name, "no_store_mapping"))]
       ELSE LET storeProduct == Val(Val(mapping).store_products)
                priceRow == priceCacheGet(cacheRows, storeProduct.id)
            IN IF IsNull(priceRow)
               THEN [acc EXCEPT !.missingItems = Append(@, Missing(name, "no_cached_price"))]
               ELSE LET line == LineItem(aggregatedItem, storeProduct, Val(priceRow), nowMsArg)
                    IN [acc EXCEPT
                          !.lineItems = Append(@, line),
                          !.basketTotal = RatAdd(@, line.lineTotal),
                          !.consumedEstimate = RatAdd(@, line.consumedEstimate),
                          !.latestUpdateMs = IF line.fetchedAt > @ THEN line.fetchedAt ELSE @,
                          !.staleCount = IF line.priceSource = "stale" THEN @ + 1 ELSE @]

\* the pass that keeps the fetchedAt of the line it has just added
QuoteStepLastFetched(acc, aggregatedItem, byCanonical, cacheRows, nowMsArg) ==
    LET mapping == mappingByCanonicalGet(byCanonical, aggregatedItem.item.id)
        name == aggregatedItem.item.name
    IN IF IsNull(mapping) \/ IsNull(Val(mapping).store_products)
       THEN [acc EXCEPT !.missingItems = Append(@, Missing(name, "no_store_mapping"))]
       ELSE LET storeProduct == Val(Val(mapping).store_products)
                priceRow == priceCacheGet(cacheRows, storeProduct.id)
            IN IF storeProduct.pack_size_unit # aggregatedItem.item.unit_type
               THEN [acc EXCEPT !.missingItems = Append(@, Missing(name, "unit_mismatch"))]
               ELSE IF IsNull(priceRow)
               THEN [acc EXCEPT !.missingItems = Append(@, Missing(name, "no_cached_price"))]
               ELSE LET line == LineItem(aggregatedItem, storeProduct, Val(priceRow), nowMsArg)
                    IN [acc EXCEPT
                          !.lineItems = Append(@, line),
                          !.basketTotal = RatAdd(@, line.lineTotal),
                          !.consumedEstimate = RatAdd(@, line.consumedEstimate),
                          !.latestUpdateMs = line.fetchedAt,
                          !.staleCount = IF line.priceSource = "stale" THEN @ + 1 ELSE @]

QuoteStep(acc, aggregatedItem, byCanonical, cacheRows, nowMsArg) ==
    LET mapping == mappingByCanonicalGet(byCanonical, aggregatedItem.item.id)
        name == aggregatedItem.item.name
    IN IF IsNull(mapping) \/ IsNull(Val(mapping).store_products)
       THEN [acc EXCEPT !.missingItems = Append(@, Missing(name, "no_store_mapping"))]
       ELSE LET storeProduct == Val(Val(mapping).store_products)
                priceRow == priceCacheGet(cacheRows, storeProduct.id)
            IN IF storeProduct.pack_size_unit # aggregatedItem.item.unit_type
               THEN [acc EXCEPT !.missingItems = Append(@, Missing(name, "unit_mismatch"))]
               ELSE IF IsNull(priceRow)
               THEN [acc EXCEPT !.missingItems = Append(@, Missing(name, "no_cached_price"))]
               ELSE LET line == LineItem(aggregatedItem, storeProduct, Val(priceRow), nowMsArg)
                    IN [acc EXCEPT
                          !.lineItems = Append(@, line),
                          !.basketTotal = RatAdd(@, line.lineTotal),
                          !.consumedEstimate = RatAdd(@, line.consumedEstimate),
                          !.latestUpdateMs = IF line.fetchedAt > @ THEN line.fetchedAt ELSE @,
                          !.staleCount = IF line.priceSource = "stale" THEN @ + 1 ELSE @]

RECURSIVE QuoteLoop(_, _, _, _, _, _)
QuoteLoop(acc, agg, i, byCanonical, cacheRows, nowMsArg) ==
    IF i > Len(agg) THEN acc
    ELSE QuoteLoop(QuoteStep(acc, agg[i], byCanonical, cacheRows, nowMsArg),
                   agg, i + 1, byCanonical, cacheRows, nowMsArg)

MissingWarning == "Some items are missing. Prices may be incomplete."
StaleWarning == "Some prices are stale. Refresh prices for the latest data."

\* the warnings with a ratio of exactly 0.2 counted as incomplete
warningsOfInclusive(missingLen, totalItemsCount, staleCount) ==
    (IF totalItemsCount # 0 /\ 5 * missingLen >= totalItemsCount
     THEN <<MissingWarning>> ELSE <<>>)
    \o (IF staleCount > 0 THEN <<StaleWarning>> ELSE <<>>)

\* lines 294-302; missingRatio > 0.2 is 5 * missing > total
warningsOf(missingLen, totalItemsCount, staleCount) ==
    (IF totalItemsCount # 0 /\ 5 * missingLen > totalItemsCount
     THEN <<MissingWarning>> ELSE <<>>)
    \o (IF staleCount > 0 THEN <<StaleWarning>> ELSE <<>>)

\* lines 304-313 with the per-line sums rounded before they are added
StoreQuoteOfRoundedLines(store, acc, agg, baseMissing, nowMsArg) ==
    LET SumRounded[i \in 0..Len(acc.lineItems)] ==
            IF i = 0 THEN [b |-> 0, c |-> 0]
            ELSE [b |-> SumRounded[i - 1].b + toFixed2(acc.lineItems[i].lineTotal),
                  c |-> SumRounded[i - 1].c + toFixed2(acc.lineItems[i].consumedEstimate)]
    IN [store |-> store,
        basketTotal |-> SumRounded[Len(acc.lineItems)].b,
        consumedEstimate |-> SumRounded[Len(acc.lineItems)].c,
        lastUpdated |-> IF acc.latestUpdateMs # 0 THEN acc.latestUpdateMs ELSE nowMsArg,
        lineItems |-> acc.lineItems,
        missingItems |-> acc.missingItems,
        missingCount |-> Len(acc.missingItems),
        warnings |-> warningsOf(Len(acc.missingItems), Len(agg) + Len(baseMissing),
                                acc.staleCount)]

StoreQuoteOf(store, acc, agg, baseMissing, nowMsArg) ==
    [store |-> store,
     basketTotal |-> toFixed2(acc.basketTotal),
     consumedEstimate |-> toFixed2(acc.consumedEstimate),
     lastUpdated |-> IF acc.latestUpdateMs # 0 THEN acc.latestUpdateMs ELSE nowMsArg,
     lineItems |-> acc.lineItems,
     missingItems |-> acc.missingItems,
     missingCount |-> Len(acc.missingItems),
     warnings |-> warningsOf(Len(acc.missingItems), Len(agg) + Len(baseMissing),
                             acc.staleCount)]

InitialAcc(baseMissing) ==
    [lineItems |-> <<>>, missingItems |-> baseMissing, basketTotal |-> RatOfInt(0),
     consumedEstimate |-> RatOfInt(0), latestUpdateMs |-> 0, staleCount |-> 0]

quoteStore(store, agg, baseMissing, byCanonical, cacheRows, nowMsArg) ==
    StoreQuoteOf(store,
                 QuoteLoop(InitialAcc(baseMissing), agg, 1, byCanonical, cacheRows, nowMsArg),
                 agg, baseMissing, nowMsArg)

\* ------------------------------------------------------------ initial states
TTL_HOURS == 24

Stores == {"x", "y"}
StoreLists == {<<>>, <<"x", "y">>, <<"y", "x">>}

CanonicalRows ==
    << [id |-> "c1", name |-> <<"a">>, unit_type |-> "GRAM", aliases |-> << <<" ", "B">> >>],
       [id |-> "c2", name |-> <<"A", "b">>, unit_type |-> "COUNT", aliases |-> <<>>] >>

Product(id, store, size, unit, active) ==
    [id |-> id, store |-> store, pack_size_value |-> size, pack_size_unit |-> unit,
     active |-> active]

StoreProductRows ==
    << Product("p1", "x", 200, "GRAM", TRUE),
       Product("p2", "x", 500, "GRAM", TRUE),
       Product("p3", "x", 200, "GRAM", FALSE),
       Product("p4", "x", 6, "COUNT", TRUE),
       Product("p5", "y", 200, "GRAM", TRUE),
       Product("p6", "y", 0, "COUNT", TRUE) >>

Mapping(c, p, priority) ==
    [canonical_item_id |-> c, store_product_id |-> p, priority |-> priority]

\* the rows a mapping table may start with, all for canonical item c1: two
\* tied rows, and above them an inactive product and a product of the wrong unit
MappingChoices ==
    {Mapping("c1", "p1", 1), Mapping("c1", "p2", 1),
     Mapping("c1", "p3", 2), Mapping("c1", "p4", 2)}

FixedMappings ==
    <<Mapping("c2", "p4", 0), Mapping("c1", "p5", 3), Mapping("c2", "p6", 0)>>

SeqsUpTo(S, n) == UNION {[1..k -> S] : k \in 0..n}

\* (canonical_item_id, store_product_id) is the table's primary key
MappingHeads ==
    {head \in SeqsUpTo(MappingChoices, MaxMapRows) :
        \A i, j \in 1..Len(head) :
            head[i].store_product_id = head[j].store_product_id => i = j}

AreaA1 == <<"A", "1">>

Cache(p, area, price, unitPrice, fetched, ttl) ==
    [store_product_id |-> p, postcode_area |-> area, price |-> price,
     unit_price |-> unitPrice, fetched_at |-> fetched, ttl_expires_at |-> ttl]

PriceCacheRows ==
    {Cache("p1", GLOBAL, 85, Null, 10, 20),
     Cache("p2", GLOBAL, 120, Some(RatOfInt(0)), 12, 30),
     Cache("p2", AreaA1, 130, Some(RatOfInt(1)), 5, 10),
     Cache("p3", GLOBAL, 10, Null, 19, 40),
     Cache("p4", GLOBAL, 240, Some(Rat(167, 4)), 8, 25),
     Cache("p5", AreaA1, 90, Null, 14, 40),
     Cache("p6", GLOBAL, 100, Null, 18, 18)}

\* the request's postcode: none, or one of the bucket A1
PostcodeA1 == <<" ", "a", "1", " ", "2", "b">>
PostcodeChoices == {<<>>, PostcodeA1}

\* Date.now() when the request is served: the entry of p1 expires at this very
\* instant, those of p6 and of p2 in A1 have expired, the others are fresh
RequestTime == 20

Item(name, required) == [ingredientName |-> name, required |-> required]
Qty(value, unit) == Some([value |-> value, unit |-> unit])

\* request items: c1 by its name and by its alias, c2, a name that only
\* contains a canonical name, a unit the canonical item does not have, and an
\* item without `required`
ItemChoices ==
    {Item(<<" ", "A">>, Qty(150, "GRAM")),
     Item(<<"b", " ">>, Qty(200, "GRAM")),
     Item(<<"a", "B">>, Qty(2, "COUNT")),
     Item(<<"a", " ", "b">>, Qty(150, "GRAM")),
     Item(<<"A">>, Qty(2, "COUNT")),
     Item(<<"a", "b">>, Null)}

QuoteInit ==
    /\ canonical_items = CanonicalRows
    /\ store_products = StoreProductRows
    /\ canonical_to_store_product \in {head \o FixedMappings : head \in MappingHeads}
    /\ price_cache = PriceCacheRows
    /\ quote_logs = <<>>
    /\ now = RequestTime
    /\ pc = "start"
    /\ body \in [stores : StoreLists, postcode : PostcodeChoices,
                  items : SeqsUpTo(ItemChoices, MaxItems)]
    /\ aggregated = <<>>
    /\ baseMissingItems = <<>>
    /\ nowMs = 0
    /\ storeIdx = 0
    /\ mappingByCanonical = <<>>
    /\ priceCache = {}
    /\ quotes = <<>>
    /\ responsePayload = Null
    /\ response = Null
    /\ failure = Null
    /\ logOutcome = Null
    /\ firstCall = Null

\* A larger catalog at one store, for baskets of up to MaxWide items: five
\* canonical items, four of them with a product and a cache entry at the
\* store, one of these entries expired, and the fifth without a mapping.
MaxWide == 5

WideCanonicalRows ==
    << [id |-> "w1", name |-> <<"a">>, unit_type |-> "GRAM", aliases |-> <<>>],
       [id |-> "w2", name |-> <<"b">>, unit_type |-> "GRAM", aliases |-> <<>>],
       [id |-> "w3", name |-> <<"c">>, unit_type |-> "GRAM", aliases |-> <<>>],
       [id |-> "w4", name |-> <<"d">>, unit_type |-> "GRAM", aliases |-> <<>>],
       [id |-> "w5", name |-> <<"f">>, unit_type |-> "GRAM", aliases |-> <<>>] >>

WideProductRows ==
    << Product("q1", "x", 100, "GRAM", TRUE), Product("q2", "x", 100, "GRAM", TRUE),
       Product("q3", "x", 100, "GRAM", TRUE), Product("q4", "x", 100, "GRAM", TRUE) >>

WideMappingRows ==
    << Mapping("w1", "q1", 0), Mapping("w2", "q2", 0),
       Mapping("w3", "q3", 0), Mapping("w4", "q4", 0) >>

WidePriceCacheRows ==
    {Cache("q1", GLOBAL, 50, Null, 10, 30), Cache("q2", GLOBAL, 60, Null, 10, 15),
     Cache("q3", GLOBAL, 70, Null, 10, 30), Cache("q4", GLOBAL, 80, Null, 10, 30)}

\* request items: the five canonical names, a name of no canonical item, and
\* two items without `required`, one of an unknown and one of a known name
WideItemChoices ==
    << Item(<<"a">>, Qty(150, "GRAM")), Item(<<"b">>, Qty(150, "GRAM")),
       Item(<<"c">>, Qty(150, "GRAM")), Item(<<"d">>, Qty(150, "GRAM")),
       Item(<<"f">>, Qty(150, "GRAM")), Item(<<"z">>, Qty(150, "GRAM")),
       Item(<<"z", "z">>, Null), Item(<<"A">>, Null) >>

\* the baskets of up to MaxWide of these items, each in the order of the list
WideRequests ==
    {[i \in DOMAIN f |-> WideItemChoices[f[i]]] :
        f \in {g \in SeqsUpTo(DOMAIN WideItemChoices, MaxWide) :
                  g # <<>> /\ \A i \in DOMAIN g : i = 1 \/ g[i - 1] <= g[i]}}

WideInit ==
    /\ canonical_items = WideCanonicalRows
    /\ store_products = WideProductRows
    /\ canonical_to_store_product = WideMappingRows
    /\ price_cache = WidePriceCacheRows
    /\ quote_logs = <<>>
    /\ now = RequestTime
    /\ pc = "start"
    /\ body \in [stores : {<<"x">>}, postcode : {<<>>}, items : WideRequests]
    /\ aggregated = <<>>
    /\ baseMissingItems = <<>>
    /\ nowMs = 0
    /\ storeIdx = 0
    /\ mappingByCanonical = <<>>
    /\ priceCache = {}
    /\ quotes = <<>>
    /\ responsePayload = Null
    /\ response = Null
    /\ failure = Null
    /\ logOutcome = Null
    /\ firstCall = Null

\* ------------------------------------------------------------------- actions
handlerVars == <<aggregated, baseMissingItems, nowMs, storeIdx, mappingByCanonical,
                 priceCache, quotes, responsePayload>>
dbVars == <<canonical_items, store_products, canonical_to_store_product, price_cache,
            quote_logs, now>>

Reply(status, payload) == Some([status |-> status, body |-> payload])
ErrorBody(message) == [error |-> message]

\* the outer catch (lines 341-347): the request ends with a 500
Fail500(message) ==
    /\ response' = Reply(500, ErrorBody(message))
    /\ pc' = "done"

\* lines 97-108
Validate ==
    /\ UNCHANGED nonQuoteVars
    /\ pc = "start"
    /\ IF body.stores = <<>> \/ body.items = <<>>
       THEN /\ response' = Reply(400, ErrorBody("stores and items are required."))
            /\ pc' = "done"
       ELSE /\ pc' = "canonical"
            /\ UNCHANGED response
    /\ UNCHANGED <<dbVars, body, handlerVars, failure, logOutcome>>

\* lines 119-161: the canonical_items query, the lookup, the aggregation, Date.now()
LoadCanonical(queryFails) ==
    /\ UNCHANGED nonQuoteVars
    /\ pc = "canonical"
    /\ IF queryFails
       THEN /\ Fail500("Failed to load canonical items")
            /\ failure' = Some([query |-> "canonical_items", store |-> "-"])
            /\ UNCHANGED handlerVars
       ELSE LET r == Aggregate(canonical_items, body.items, 1, <<>>, <<>>)
            IN IF r.threw
               THEN /\ Fail500("TypeError")
                    /\ UNCHANGED <<handlerVars, failure>>
               ELSE /\ aggregated' = r.aggregated
                    /\ baseMissingItems' = r.baseMissingItems
                    /\ nowMs' = now
                    /\ storeIdx' = 1
                    /\ pc' = "mappings"
                    /\ UNCHANGED <<mappingByCanonical, priceCache, quotes,
                                   responsePayload, response, failure>>
    /\ UNCHANGED <<dbVars, body, logOutcome>>

\* lines 168-190: the mapping query of the current store and mappingByCanonical
LoadMappings(queryFails) ==
    /\ UNCHANGED nonQuoteVars
    /\ pc = "mappings"
    /\ IF queryFails
       THEN /\ Fail500("Failed to load store mappings")
            /\ failure' = Some([query |-> "canonical_to_store_product",
                                store |-> body.stores[storeIdx]])
            /\ UNCHANGED mappingByCanonical
       ELSE LET mappingRows == SelectMappingRows(canonical_to_store_product, store_products,
                                                canonicalIdsOf(aggregated),
                                                body.stores[storeIdx])
            IN /\ mappingByCanonical' = BuildMappingByCanonical(mappingRows, aggregated)
               /\ pc' = "cache"
               /\ UNCHANGED <<response, failure>>
    /\ UNCHANGED <<dbVars, body, aggregated, baseMissingItems, nowMs, storeIdx, priceCache,
                   quotes, responsePayload, logOutcome>>

\* lines 192-209: the price_cache query, issued only when a product was selected
LoadCache(queryFails) ==
    /\ UNCHANGED nonQuoteVars
    /\ pc = "cache"
    /\ IF storeProductIdsOf(mappingByCanonical) = {}
       THEN /\ ~queryFails
            /\ priceCache' = {}
            /\ pc' = "build"
            /\ UNCHANGED <<response, failure>>
       ELSE IF queryFails
       THEN /\ Fail500("Failed to load price cache")
            /\ failure' = Some([query |-> "price_cache", store |-> body.stores[storeIdx]])
            /\ UNCHANGED priceCache
       ELSE /\ priceCache' = SelectCacheRows(price_cache, storeProductIdsOf(mappingByCanonical),
                                             cachePostcodeOf(body.postcode))
            /\ pc' = "build"
            /\ UNCHANGED <<response, failure>>
    /\ UNCHANGED <<dbVars, body, aggregated, baseMissingItems, nowMs, storeIdx,
                   mappingByCanonical, quotes, responsePayload, logOutcome>>

PayloadOf(qs) ==
    [currency |-> "GBP", quotes |-> qs,
     meta |-> [postcodeArea |-> extractPostcodeArea(body.postcode), ttlHours |-> TTL_HOURS]]

\* lines 211-314: the line-item loop and the store's quote; after the last
\* store, lines 316-323: the response payload
BuildQuote ==
    /\ UNCHANGED nonQuoteVars
    /\ pc = "build"
    /\ LET q == quoteStore(body.stores[storeIdx], aggregated, baseMissingItems,
                           mappingByCanonical, priceCache, nowMs)
       IN /\ quotes' = Append(quotes, q)
          /\ IF storeIdx < Len(body.stores)
             THEN /\ storeIdx' = storeIdx + 1
                  /\ pc' = "mappings"
                  /\ UNCHANGED responsePayload
             ELSE /\ responsePayload' = Some(PayloadOf(Append(quotes, q)))
                  /\ pc' = "log"
                  /\ UNCHANGED storeIdx
    /\ UNCHANGED <<dbVars, body, aggregated, baseMissingItems, nowMs, mappingByCanonical,
                   priceCache, response, failure, logOutcome>>

LogRow == [request |-> [stores |-> body.stores, items |-> body.items,
                        postcode |-> extractPostcodeArea(body.postcode)],
           response |-> Val(responsePayload)]

\* What the handler does once the insert has ended (lines 325-340): an insert
\* that returns {error} is not looked at, one that throws is caught and logged.
AfterLogThrowPropagates(outcome) ==
    IF outcome = "throws" THEN Fail500("insert failed") ELSE pc' = "respond" /\ UNCHANGED response
AfterLog(outcome) ==
    pc' = "respond" /\ UNCHANGED response

\* the insert, preceded by a purge of the cache entries that have expired
LogInsertPurgesExpired(outcome) ==
    /\ UNCHANGED nonQuoteVars
    /\ pc = "log"
    /\ price_cache' = {row \in price_cache : isCacheFresh(row, nowMs)}
    /\ quote_logs' = IF outcome = "ok" THEN Append(quote_logs, LogRow) ELSE quote_logs
    /\ logOutcome' = Some(outcome)
    /\ AfterLog(outcome)
    /\ UNCHANGED <<canonical_items, store_products, canonical_to_store_product,
                   now, body, handlerVars, failure>>

LogInsert(outcome) ==
    /\ UNCHANGED nonQuoteVars
    /\ pc = "log"
    /\ quote_logs' = IF outcome = "ok" THEN Append(quote_logs, LogRow) ELSE quote_logs
    /\ logOutcome' = Some(outcome)
    /\ AfterLog(outcome)
    /\ UNCHANGED <<canonical_items, store_products, canonical_to_store_product, price_cache,
                   now, body, handlerVars, failure>>

\* lines 338-340
Respond ==
    /\ UNCHANGED nonQuoteVars
    /\ pc = "respond"
    /\ response' = Reply(200, Val(responsePayload))
    /\ pc' = "done"
    /\ UNCHANGED <<dbVars, body, handlerVars, failure, logOutcome>>

LogOutcomes == {"ok", "error", "throws"}

\* The client posts the request it has an answer for once more, `elapsed` later;
\* the handler starts afresh (line 84), the tables are as the first call left them.
ClockSteps == {0, 1, 10}

CallAgain(elapsed) ==
    /\ pc = "done"
    /\ IsNull(firstCall)
    /\ ~IsNull(response) /\ Val(response).status = 200
    /\ firstCall' = Some([quotes |-> Val(response).body.quotes, nowMs |-> nowMs])
    /\ now' = now + elapsed
    /\ pc' = "start"
    /\ aggregated' = <<>>
    /\ baseMissingItems' = <<>>
    /\ nowMs' = 0
    /\ storeIdx' = 0
    /\ mappingByCanonical' = <<>>
    /\ priceCache' = {}
    /\ quotes' = <<>>
    /\ responsePayload' = Null
    /\ response' = Null
    /\ failure' = Null
    /\ logOutcome' = Null
    /\ UNCHANGED <<canonical_items, store_products, canonical_to_store_product, price_cache,
                   quote_logs, body, hookVars, basketVars, unitVars, refreshVars, appVars>>

QuoteNext ==
    \/ Validate
    \/ \E queryFails \in BOOLEAN : LoadCanonical(queryFails)
    \/ \E queryFails \in BOOLEAN : LoadMappings(queryFails)
    \/ \E queryFails \in BOOLEAN : LoadCache(queryFails)
    \/ BuildQuote
    \/ \E outcome \in LogOutcomes : LogInsert(outcome)
    \/ Respond

\* ------------------------------------------------ the hook usePriceQuotes
MaxEffects == 4

MenuChoices == {"empty", "m1", "m2"}
\* what postQuote may resolve with: quotes for two stores, or none
Responses == {[tag |-> "r1", quotes |-> <<"x", "y">>], [tag |-> "r2", quotes |-> <<>>]}
\* what it may reject with: an Error's message, or the text used for a non-Error
ErrorMessages == {"Quote request failed: 500", "Unable to fetch quotes."}

HookInit ==
    /\ hookMounted = TRUE
    /\ configured \in BOOLEAN
    /\ menu = "empty"
    /\ effectId = 1
    /\ liveEffect = 0
    /\ timer = 0
    /\ inFlight = {}
    /\ hookQuotes = Null
    /\ hookError = Null
    /\ isLoading = FALSE
    /\ lastSuccessRef = Null
    /\ uncaught = FALSE
    /\ lastOutcome = "none"
    /\ lastGood = Null
    /\ clearedSince = FALSE

\* what the hook returns, and what the shop screen makes of it (shop.tsx:152, 302)
isFallback == ~IsNull(hookError)
hasQuoteData == ~IsNull(hookQuotes) /\ Len(Val(hookQuotes).quotes) > 0 /\ ~isFallback
basketTitle == IF hasQuoteData THEN "Estimated Basket Total" ELSE "Local Basket Estimate"

\* The menu changes: the cleanup of the previous run of the effect, then the
\* effect again (lines 396-435).
SetMenu(m) ==
    /\ hookMounted
    /\ m # menu
    /\ effectId < MaxEffects
    /\ menu' = m
    /\ effectId' = effectId + 1
    /\ IF m = "empty"
       THEN /\ hookQuotes' = Null
            /\ hookError' = Null
            /\ liveEffect' = 0
            /\ timer' = 0
            /\ clearedSince' = TRUE
       ELSE IF ~configured
       THEN /\ hookError' = Some("Quote endpoint not configured.")
            /\ liveEffect' = 0
            /\ timer' = 0
            /\ UNCHANGED <<hookQuotes, clearedSince>>
       ELSE /\ liveEffect' = effectId + 1
            /\ timer' = effectId + 1
            /\ UNCHANGED <<hookQuotes, hookError, clearedSince>>
    /\ UNCHANGED <<hookMounted, configured, inFlight, isLoading, lastSuccessRef, uncaught,
                   lastOutcome, lastGood>>
    /\ UNCHANGED nonHookVars

\* the debounce timer fires: lines 410-413, up to the await
TimerFire ==
    /\ timer # 0
    /\ isLoading' = TRUE
    /\ hookError' = Null
    /\ inFlight' = inFlight \cup {timer}
    /\ timer' = 0
    /\ clearedSince' = TRUE
    /\ UNCHANGED <<hookMounted, configured, menu, effectId, liveEffect, hookQuotes,
                   lastSuccessRef, uncaught, lastOutcome, lastGood>>
    /\ UNCHANGED nonHookVars

\* postQuote resolves and the result is taken without a look at isMounted
RequestSucceedsUnguarded(e, r) ==
    /\ e \in inFlight
    /\ inFlight' = inFlight \ {e}
    /\ hookQuotes' = Some(r)
    /\ lastSuccessRef' = Some(r)
    /\ isLoading' = FALSE
    /\ lastOutcome' = "success"
    /\ lastGood' = Some(r)
    /\ clearedSince' = FALSE
    /\ UNCHANGED <<hookMounted, configured, menu, effectId, liveEffect, timer, hookError,
                   uncaught>>
    /\ UNCHANGED nonHookVars

\* postQuote resolves: lines 414-416 and the finally block
RequestSucceeds(e, r) ==
    /\ e \in inFlight
    /\ inFlight' = inFlight \ {e}
    /\ IF liveEffect = e
       THEN /\ hookQuotes' = Some(r)
            /\ lastSuccessRef' = Some(r)
            /\ isLoading' = FALSE
            /\ lastOutcome' = "success"
            /\ lastGood' = Some(r)
            /\ clearedSince' = FALSE
       ELSE UNCHANGED <<hookQuotes, lastSuccessRef, isLoading, lastOutcome, lastGood,
                        clearedSince>>
    /\ UNCHANGED <<hookMounted, configured, menu, effectId, liveEffect, timer, hookError,
                   uncaught>>
    /\ UNCHANGED nonHookVars

\* the catch block of a run that is still mounted (lines 419-423)
CatchUncaught(message) ==
    /\ uncaught' = TRUE
    /\ UNCHANGED <<hookError, hookQuotes>>
CatchKeepsQuotes(message) ==
    /\ hookError' = Some(message)
    /\ UNCHANGED <<hookQuotes, uncaught>>
Catch(message) ==
    /\ hookError' = Some(message)
    /\ hookQuotes' = IF ~IsNull(lastSuccessRef) THEN lastSuccessRef ELSE hookQuotes
    /\ UNCHANGED uncaught

\* postQuote rejects: lines 417-423 and the finally block
RequestFails(e, message) ==
    /\ e \in inFlight
    /\ inFlight' = inFlight \ {e}
    /\ IF liveEffect = e
       THEN /\ Catch(message)
            /\ isLoading' = FALSE
            /\ lastOutcome' = "failure"
            /\ clearedSince' = FALSE
       ELSE UNCHANGED <<hookQuotes, hookError, uncaught, isLoading, lastOutcome, clearedSince>>
    /\ UNCHANGED <<hookMounted, configured, menu, effectId, liveEffect, timer,
                   lastSuccessRef, lastGood>>
    /\ UNCHANGED nonHookVars

\* the component unmounts: the cleanup of the last run (lines 431-434)
Unmount ==
    /\ hookMounted
    /\ hookMounted' = FALSE
    /\ liveEffect' = 0
    /\ timer' = 0
    /\ UNCHANGED <<configured, menu, effectId, inFlight, hookQuotes, hookError, isLoading,
                   lastSuccessRef, uncaught, lastOutcome, lastGood, clearedSince>>
    /\ UNCHANGED nonHookVars

HookNext ==
    \/ \E m \in MenuChoices : SetMenu(m)
    \/ TimerFire
    \/ \E e \in 1..MaxEffects, r \in Responses : RequestSucceeds(e, r)
    \/ \E e \in 1..MaxEffects, message \in ErrorMessages : RequestFails(e, message)
    \/ Unmount

\* ------------------------------------------------------------ normalizeUnit
Normalized(unit, value) == [unit |-> unit, value |-> value]

\* a copy of the seeding script's function that compares the unit as written
seedNormalizeUnitAsWritten(unit, value) ==
    LET normalized == trim(unit)
    IN IF normalized \in {<<"g">>, <<"g", "r", "a", "m">>, <<"g", "r", "a", "m", "s">>}
       THEN Normalized("GRAM", value)
       ELSE IF normalized = <<"k", "g">> THEN Normalized("GRAM", RatMulInt(value, 1000))
       ELSE IF normalized \in {<<"m", "l">>} THEN Normalized("ML", value)
       ELSE IF normalized = <<"l">> THEN Normalized("ML", RatMulInt(value, 1000))
       ELSE IF normalized = <<"t", "s", "p">> THEN Normalized("ML", RatMulInt(value, 5))
       ELSE IF normalized = <<"t", "b", "s", "p">> THEN Normalized("ML", RatMulInt(value, 15))
       ELSE IF normalized \in {<<"p", "i", "e", "c", "e">>, <<"p", "i", "e", "c", "e", "s">>,
                           <<"c", "l", "o", "v", "e">>, <<"c", "l", "o", "v", "e", "s">>}
       THEN Normalized("COUNT", value)
       ELSE Normalized("COUNT", value)

\* the app's copy (the hook's module): `unit` is Null when it is not a string
normalizeUnit(unit, value) ==
    IF IsNull(unit) THEN Normalized("COUNT", value)
    ELSE LET normalized == toLowerCase(trim(Val(unit)))
         IN IF normalized \in {<<"g">>, <<"g", "r", "a", "m">>, <<"g", "r", "a", "m", "s">>}
            THEN Normalized("GRAM", value)
            ELSE IF normalized = <<"k", "g">> THEN Normalized("GRAM", RatMulInt(value, 1000))
            ELSE IF normalized \in {<<"m", "l">>} THEN Normalized("ML", value)
            ELSE IF normalized = <<"l">> THEN Normalized("ML", RatMulInt(value, 1000))
            ELSE IF normalized = <<"t", "s", "p">> THEN Normalized("ML", RatMulInt(value, 5))
            ELSE IF normalized = <<"t", "b", "s", "p">> THEN Normalized("ML", RatMulInt(value, 15))
            ELSE IF normalized \in {<<"p", "i", "e", "c", "e">>, <<"p", "i", "e", "c", "e", "s">>,
                                <<"c", "l", "o", "v", "e">>, <<"c", "l", "o", "v", "e", "s">>}
            THEN Normalized("COUNT", value)
            ELSE Normalized("COUNT", value)

\* the seeding script's copy: `unit` is a string
seedNormalizeUnit(unit, value) ==
    LET normalized == toLowerCase(trim(unit))
    IN IF normalized \in {<<"g">>, <<"g", "r", "a", "m">>, <<"g", "r", "a", "m", "s">>}
       THEN Normalized("GRAM", value)
       ELSE IF normalized = <<"k", "g">> THEN Normalized("GRAM", RatMulInt(value, 1000))
       ELSE IF normalized \in {<<"m", "l">>} THEN Normalized("ML", value)
       ELSE IF normalized = <<"l">> THEN Normalized("ML", RatMulInt(value, 1000))
       ELSE IF normalized = <<"t", "s", "p">> THEN Normalized("ML", RatMulInt(value, 5))
       ELSE IF normalized = <<"t", "b", "s", "p">> THEN Normalized("ML", RatMulInt(value, 15))
       ELSE IF normalized \in {<<"p", "i", "e", "c", "e">>, <<"p", "i", "e", "c", "e", "s">>,
                           <<"c", "l", "o", "v", "e">>, <<"c", "l", "o", "v", "e", "s">>}
       THEN Normalized("COUNT", value)
       ELSE Normalized("COUNT", value)

UnitStrings ==
    {<<"g">>, <<"g", "r", "a", "m">>, <<"g", "r", "a", "m", "s">>,
     <<"p", "i", "e", "c", "e">>, <<"p", "i", "e", "c", "e", "s">>,
     <<"c", "l", "o", "v", "e">>, <<"c", "l", "o", "v", "e", "s">>,
     <<"k", "g">>, <<"m", "l">>, <<"l">>, <<"t", "s", "p">>, <<"t", "b", "s", "p">>,
     <<"K", "G">>, <<" ", "T", "b", "s", "p", " ">>, <<"M", "l">>, <<"L">>, <<"G", "r", "a", "m", "s">>,
     <<"C", "l", "o", "v", "e">>, <<"b", "u", "n", "c", "h">>, <<>>, <<"k", " ", "g">>, <<"g", "r">>,
     <<"t", "s", "p", "s">>, <<"c", "u", "p">>}

UnitValues == {RatOfInt(0), RatOfInt(2), RatOfInt(3), Rat(1, 2)}

UnitsIdle ==
    /\ unitArg = <<>>
    /\ valueArg = RatOfInt(0)
    /\ appNormalized = Null
    /\ seedNormalized = Null

UnitsInit ==
    /\ unitArg \in UnitStrings
    /\ valueArg \in UnitValues
    /\ appNormalized = Null
    /\ seedNormalized = Null

AppNormalize ==
    /\ IsNull(appNormalized)
    /\ appNormalized' = Some(normalizeUnit(Some(unitArg), valueArg))
    /\ UNCHANGED <<unitArg, valueArg, seedNormalized, nonUnitVars>>

SeedNormalize ==
    /\ IsNull(seedNormalized)
    /\ seedNormalized' = Some(seedNormalizeUnit(unitArg, valueArg))
    /\ UNCHANGED <<unitArg, valueArg, appNormalized, nonUnitVars>>

UnitsNext == AppNormalize \/ SeedNormalize

\* --------------------------------------------- the menu and what is made of it
\* longest menu
MaxMenu == 2

Ingredient(name, canonicalName, quantity, unit, price) ==
    [name |-> name, canonicalName |-> canonicalName, quantity |-> quantity,
     unit |-> unit, price |-> price]

Flour == <<"f">>
Milk == <<"m">>
Garlic == <<"g">>

\* The recipes getRecipeById knows.  A field is Null when it is not of its
\* type: a name that is no string, a quantity or price that is no finite number.
Recipes ==
    << [id |-> "r1", name |-> "R1", servings |-> 4,
        ingredients |->
          << Ingredient(Some(<<"F", "l">>), Some(Flour), Some(200), Some(<<"g">>), Some(40)),
             Ingredient(Some(Milk), Some(Milk), Some(1), Some(<<"l">>), Some(90)) >>],
       [id |-> "r2", name |-> "R2", servings |-> 2,
        ingredients |->
          << Ingredient(Some(Flour), Some(<<" ", "F">>), Some(1), Some(<<"K", "g">>), Some(100)),
             Ingredient(Some(Garlic), Some(Garlic), Some(2), Some(<<"c", "l", "o", "v", "e", "s">>),
                        Null) >>],
       [id |-> "r3", name |-> "R3", servings |-> 3,
        ingredients |->
          << Ingredient(Some(Flour), Some(Flour), Some(2), Some(<<"t", "b", "s", "p">>), Some(10)),
             Ingredient(Some(<<"e">>), Null, Null, Null, Some(30)),
             Ingredient(Null, Some(<<" ">>), Some(1), Some(<<"g">>), Some(5)) >>] >>

getRecipeById(id) ==
    IF \E i \in DOMAIN Recipes : Recipes[i].id = id
    THEN Some(Recipes[CHOOSE i \in DOMAIN Recipes : Recipes[i].id = id])
    ELSE Null

\* position of `key` in a Map or keyed object kept as a sequence, 0 when absent
KeyIndex(entries, key) ==
    IF \E i \in DOMAIN entries : entries[i].key = key
    THEN CHOOSE i \in DOMAIN entries : entries[i].key = key
    ELSE 0

\* buildQuoteItems: the callback of recipe.ingredients.forEach
quoteIngredientUnscaled(agg, scale, ingredient) ==
    LET rawName == IF ~IsNull(ingredient.canonicalName) THEN Val(ingredient.canonicalName)
                   ELSE IF ~IsNull(ingredient.name) THEN Val(ingredient.name)
                   ELSE <<>>
        key == toLowerCase(trim(rawName))
    IN IF key = <<>> \/ IsNull(ingredient.quantity) THEN agg
       ELSE LET normalized == normalizeUnit(ingredient.unit, RatOfInt(Val(ingredient.quantity)))
                k == KeyIndex(agg, key)
            IN IF k # 0
               THEN [agg EXCEPT ![k].required.value = RatAdd(@, normalized.value)]
               ELSE Append(agg,
                           [key |-> key,
                            ingredientName |-> ingredient.canonicalName,
                            required |-> [value |-> normalized.value,
                                          unit |-> normalized.unit]])

quoteIngredient(agg, scale, ingredient) ==
    LET rawName == IF ~IsNull(ingredient.canonicalName) THEN Val(ingredient.canonicalName)
                   ELSE IF ~IsNull(ingredient.name) THEN Val(ingredient.name)
                   ELSE <<>>
        key == toLowerCase(trim(rawName))
    IN IF key = <<>> \/ IsNull(ingredient.quantity) THEN agg
       ELSE LET normalized == normalizeUnit(ingredient.unit,
                                            RatMulInt(scale, Val(ingredient.quantity)))
                k == KeyIndex(agg, key)
            IN IF k # 0
               THEN [agg EXCEPT ![k].required.value = RatAdd(@, normalized.value)]
               ELSE Append(agg,
                           [key |-> key,
                            ingredientName |-> ingredient.canonicalName,
                            required |-> [value |-> normalized.value,
                                          unit |-> normalized.unit]])

RECURSIVE quoteRecipe(_, _, _, _)
quoteRecipe(agg, scale, ingredients, i) ==
    IF i > Len(ingredients) THEN agg
    ELSE quoteRecipe(quoteIngredient(agg, scale, ingredients[i]),
                     scale, ingredients, i + 1)

\* buildQuoteItems: the callback of menuItems.forEach
quoteMenuItem(agg, menuItem) ==
    LET recipe == getRecipeById(menuItem.recipeId)
    IN IF IsNull(recipe) THEN agg
       ELSE quoteRecipe(agg, Rat(menuItem.servings, Val(recipe).servings),
                        Val(recipe).ingredients, 1)

RECURSIVE quoteMenu(_, _, _)
quoteMenu(agg, menuItems, i) ==
    IF i > Len(menuItems) THEN agg
    ELSE quoteMenu(quoteMenuItem(agg, menuItems[i]), menuItems, i + 1)

\* Array.from(agg.values())
buildQuoteItems(menuItems) ==
    LET agg == quoteMenu(<<>>, menuItems, 1)
    IN [i \in DOMAIN agg |->
           [ingredientName |-> agg[i].ingredientName,
            required |-> agg[i].required]]

\* packSizeHints, keyed by canonical name; amounts in pence
Piece == <<"p", "i", "e", "c", "e">>

packSizeHints ==
    << [key |-> Flour, packSize |-> 500, packPrice |-> 85, unit |-> <<"g">>],
       [key |-> Garlic, packSize |-> 1, packPrice |-> 18, unit |-> <<"c", "l", "o", "v", "e">>] >>

\* Math.ceil of a fraction
RatCeil(a) == -((-a.n) \div a.d)

includes(list, x) == \E i \in DOMAIN list : list[i] = x

\* generateGroceryList: the callback of recipe.ingredients.forEach
groceryIngredient(agg, scale, recipe, ing) ==
    LET rawName == IF ~IsNull(ing.canonicalName) THEN ing.canonicalName ELSE ing.name
    IN IF IsNull(rawName) \/ Val(rawName) = <<>> THEN agg
       ELSE LET key == toLowerCase(Val(rawName))
                created ==
                    IF KeyIndex(agg, key) # 0 THEN agg
                    ELSE Append(agg,
                                [key |-> key,
                                 ingredientName |-> IF ~IsNull(ing.name) THEN Val(ing.name)
                                                    ELSE Val(rawName),
                                 canonicalName |-> Val(rawName),
                                 quantity |-> RatOfInt(0),
                                 unit |-> IF ~IsNull(ing.unit) THEN Val(ing.unit) ELSE Piece,
                                 estimatedPrice |-> RatOfInt(0),
                                 sources |-> <<>>,
                                 isShared |-> FALSE])
                k == KeyIndex(created, key)
                entry == created[k]
                sources == IF includes(entry.sources, recipe.name) THEN entry.sources
                           ELSE Append(entry.sources, recipe.name)
            IN [created EXCEPT
                  ![k].quantity = IF IsNull(ing.quantity) THEN @
                                  ELSE RatAdd(@, RatMulInt(scale, Val(ing.quantity))),
                  ![k].estimatedPrice = IF IsNull(ing.price) THEN @
                                        ELSE RatAdd(@, RatMulInt(scale, Val(ing.price))),
                  ![k].sources = sources,
                  ![k].isShared = entry.isShared \/ Len(sources) > 1]

RECURSIVE groceryRecipe(_, _, _, _)
groceryRecipe(agg, scale, recipe, i) ==
    IF i > Len(recipe.ingredients) THEN agg
    ELSE groceryRecipe(groceryIngredient(agg, scale, recipe, recipe.ingredients[i]),
                       scale, recipe, i + 1)

\* generateGroceryList: the callback of state.menu.forEach
groceryMenuItem(agg, menuItem) ==
    LET recipe == getRecipeById(menuItem.recipeId)
    IN IF IsNull(recipe) THEN agg
       ELSE groceryRecipe(agg, Rat(menuItem.servings, Val(recipe).servings),
                          Val(recipe), 1)

RECURSIVE groceryMenu(_, _, _)
groceryMenu(agg, menuItems, i) ==
    IF i > Len(menuItems) THEN agg
    ELSE groceryMenu(groceryMenuItem(agg, menuItems[i]), menuItems, i + 1)

\* the pack fields an item gets when a hint of its unit exists (lines 295-311)
packOf(item) ==
    IF \E h \in DOMAIN packSizeHints :
          packSizeHints[h].key = item.canonicalName /\ packSizeHints[h].unit = item.unit
    THEN LET packHint == packSizeHints[CHOOSE h \in DOMAIN packSizeHints :
                                           packSizeHints[h].key = item.canonicalName]
             packCount == RatCeil(Rat(item.quantity.n, item.quantity.d * packHint.packSize))
         IN Some([packSize |-> packHint.packSize, packPrice |-> packHint.packPrice,
                  packCount |-> packCount, packCost |-> packCount * packHint.packPrice])
    ELSE Null

\* the payload of SET_GROCERY_LIST
groceryListOf(menuItems) ==
    LET agg == groceryMenu(<<>>, menuItems, 1)
    IN [i \in DOMAIN agg |->
           [ingredientName |-> agg[i].ingredientName,
            canonicalName |-> agg[i].canonicalName,
            quantity |-> agg[i].quantity,
            unit |-> agg[i].unit,
            estimatedPrice |-> agg[i].estimatedPrice,
            sources |-> agg[i].sources,
            isShared |-> agg[i].isShared,
            pack |-> packOf(agg[i])]]

\* the menus the reducer can hold: no recipe twice (ADD_TO_MENU), some of them
\* of a recipe that is no longer known
RecipeIds == {"r1", "r2", "r3", "r9"}
ServingsChoices == {1, 2}
MenuItems == [recipeId : RecipeIds, servings : ServingsChoices]
Menus ==
    {m \in SeqsUpTo(MenuItems, MaxMenu) :
        \A i, j \in DOMAIN m : m[i].recipeId = m[j].recipeId => i = j}

BasketIdle ==
    /\ stateMenu = <<>>
    /\ quoteItems = Null
    /\ groceryList = Null

BasketInit ==
    /\ stateMenu \in Menus
    /\ quoteItems = Null
    /\ groceryList = Null

\* the hook's useMemo(() => buildQuoteItems(menuItems), [menuItems])
BuildQuoteItems ==
    /\ IsNull(quoteItems)
    /\ quoteItems' = Some(buildQuoteItems(stateMenu))
    /\ UNCHANGED <<stateMenu, groceryList, nonBasketVars>>

\* generateGroceryList and the reducer's SET_GROCERY_LIST
GenerateGroceryList ==
    /\ groceryList' = Some(groceryListOf(stateMenu))
    /\ groceryList' # groceryList
    /\ UNCHANGED <<stateMenu, quoteItems, nonBasketVars>>

BasketNext == BuildQuoteItems \/ GenerateGroceryList

\* ------------------------------------------- the handler of refresh-prices
\* (supabase/functions/refresh-prices/index.ts; its extractPostcodeArea and
\* isCacheFresh, lines 47-57, are those of the quote handler)
DEFAULT_LIMIT == 50
MAX_LIMIT == 200
REFRESH_TTL_HOURS == 12
\* parseBatchSize(): PROVIDER_BATCH_SIZE is set to 2 in the modelled deployment
batchSize == 2
\* runs of the handler, one after the other
MaxRefreshes == 2

Min(a, b) == IF a < b THEN a ELSE b
Max(a, b) == IF a > b THEN a ELSE b

\* the catalog of the refresh: the quote's products and one more at store x
RefreshProductRows == StoreProductRows \o <<Product("p7", "x", 100, "GRAM", TRUE)>>

\* store_products.provider_product_id, a column the quote handler does not
\* select: usable ids, one of them with blanks around it, a placeholder of the
\* seeding script, and a blank one
provider_product_id ==
    [p1 |-> <<"u", "1">>, p2 |-> <<" ", "u", "2", " ">>, p3 |-> <<"u", "3">>,
     p4 |-> <<"T", "O", "D", "O", "_", "4">>, p5 |-> <<"u", "5">>, p6 |-> <<" ">>,
     p7 |-> <<"u", "7">>]

normalizeProviderId(value) == trim(value)
startsWith(s, prefix) == Len(s) >= Len(prefix) /\ SubSeq(s, 1, Len(prefix)) = prefix
TODO_PREFIX == <<"T", "O", "D", "O", "_">>

\* what the provider answers for a product at time t: its fetchedAt is optional
ProviderPrice(price, unitPrice, fetchedAt) ==
    [price |-> price, unitPrice |-> unitPrice, fetchedAt |-> fetchedAt]
providerPriceOf(id, t) ==
    CASE id = "p1" -> ProviderPrice(95, Null, Null)
      [] id = "p2" -> ProviderPrice(125, Some(Rat(1, 4)), Some(t))
      [] id = "p5" -> ProviderPrice(99, Some(Rat(1, 2)), Null)
      [] OTHER -> ProviderPrice(60, Null, Some(t))

\* lines 100-101
limitOf(b) ==
    LET limitValue == IF IsNull(b.limit) THEN DEFAULT_LIMIT ELSE Val(b.limit)
    IN Max(1, Min(MAX_LIMIT, limitValue))

\* the store_products query (lines 117-129); the rows come in table order
SelectStoreProducts(rows, b) ==
    LET wanted(r) == /\ r.active
                     /\ b.stores = <<>> \/ includes(b.stores, r.store)
                     /\ b.storeProductIds = <<>> \/ includes(b.storeProductIds, r.id)
        matching == SelectSeq(rows, wanted)
    IN SubSeq(matching, 1, Min(Len(matching), limitOf(b)))

\* toRefreshByStore, a Map in insertion order: [store, products] entries
addToStore(entries, product) ==
    IF \E i \in DOMAIN entries : entries[i].store = product.store
    THEN [i \in DOMAIN entries |->
             IF entries[i].store = product.store
             THEN [entries[i] EXCEPT !.products = Append(@, product)]
             ELSE entries[i]]
    ELSE Append(entries, [store |-> product.store, products |-> <<product>>])

RefreshError(id, reason) == [storeProductId |-> id, reason |-> reason]

\* one pass of the loop of lines 174-195, with the entry counted as fresh
\* whatever its ttl_expires_at
classifyIgnoresTtl(acc, product, force, cache, nowMsArg) ==
    LET cached == priceCacheGet(cache, product.id)
        providerId == normalizeProviderId(provider_product_id[product.id])
    IN IF ~force /\ ~IsNull(cached)
       THEN [acc EXCEPT !.skippedFresh = @ + 1]
       ELSE IF providerId = <<>> \/ startsWith(providerId, TODO_PREFIX)
       THEN [acc EXCEPT !.failed = @ + 1,
                        !.errors = Append(@, RefreshError(product.id, "missing_provider_url"))]
       ELSE [acc EXCEPT !.toRefreshByStore = addToStore(@, product)]

\* one pass of the loop of lines 174-195
classify(acc, product, force, cache, nowMsArg) ==
    LET cached == priceCacheGet(cache, product.id)
        providerId == normalizeProviderId(provider_product_id[product.id])
    IN IF ~force /\ ~IsNull(cached) /\ isCacheFresh(Val(cached), nowMsArg)
       THEN [acc EXCEPT !.skippedFresh = @ + 1]
       ELSE IF providerId = <<>> \/ startsWith(providerId, TODO_PREFIX)
       THEN [acc EXCEPT !.failed = @ + 1,
                        !.errors = Append(@, RefreshError(product.id, "missing_provider_url"))]
       ELSE [acc EXCEPT !.toRefreshByStore = addToStore(@, product)]

RECURSIVE classifyAll(_, _, _, _, _, _)
classifyAll(acc, products, i, force, cache, nowMsArg) ==
    IF i > Len(products) THEN acc
    ELSE classifyAll(classify(acc, products[i], force, cache, nowMsArg),
                     products, i + 1, force, cache, nowMsArg)

\* chunk(items, size), lines 71-77
RECURSIVE chunk(_, _)
chunk(items, size) ==
    IF items = <<>> THEN <<>>
    ELSE <<SubSeq(items, 1, Min(size, Len(items)))>>
         \o chunk(SubSeq(items, Min(size, Len(items)) + 1, Len(items)), size)

\* the provider calls in the order the handler makes them: with
\* getProductPrices the batches of each store in turn (lines 198-203),
\* without it one product at a time (lines 277-279)
RECURSIVE batchesOf(_, _, _)
batchesOf(entries, i, size) ==
    IF i > Len(entries) THEN <<>>
    ELSE chunk(entries[i].products, size) \o batchesOf(entries, i + 1, size)

\* lines 227-240 and 287-300
upsertRowOf(product, cachePostcode, providerPrice, nowMsArg) ==
    Cache(product.id, cachePostcode, providerPrice.price, providerPrice.unitPrice,
          IF IsNull(providerPrice.fetchedAt) THEN nowMsArg ELSE Val(providerPrice.fetchedAt),
          nowMsArg + REFRESH_TTL_HOURS)

\* upsert(..., { onConflict: 'store_product_id,postcode_area' }): one statement
upsert(cache, row) ==
    {old \in cache : ~(old.store_product_id = row.store_product_id
                       /\ old.postcode_area = row.postcode_area)} \cup {row}

\* the catch of a batch counting the batch as one failure
failBatchOnce(count, products) == count + 1

\* the catch of lines 257-265 and 311-317: every product of the call has failed
failBatch(count, products) == count + Len(products)

ErrorsOfBatch(products, reason) ==
    [i \in DOMAIN products |-> RefreshError(products[i].id, reason)]

IdsOf(products) == {products[i].id : i \in DOMAIN products}

\* the requests of a refresh
RefreshBodies ==
    [stores : {<<>>, <<"y">>}, storeProductIds : {<<>>, <<"p1", "p2", "p3", "p4", "p6">>},
     postcode : PostcodeChoices, force : BOOLEAN, limit : {Null, Some(0)}]

NoBatch == [products |-> <<>>, priced |-> {}]

RefreshHandlerStart(b) ==
    /\ refreshPc = "start"
    /\ refreshBody = b
    /\ storeProducts = <<>>
    /\ cacheMap = {}
    /\ refreshNowMs = 0
    /\ refreshed = 0
    /\ skippedFresh = 0
    /\ failed = 0
    /\ errors = <<>>
    /\ batches = <<>>
    /\ batch = NoBatch
    /\ refreshResponse = Null
    /\ fetchedIds = {}

RefreshIdle ==
    /\ refreshPc = "idle"
    /\ refreshBody = [stores |-> <<>>, storeProductIds |-> <<>>, postcode |-> <<>>,
                      force |-> FALSE, limit |-> Null]
    /\ bulk = FALSE
    /\ storeProducts = <<>>
    /\ cacheMap = {}
    /\ refreshNowMs = 0
    /\ refreshed = 0
    /\ skippedFresh = 0
    /\ failed = 0
    /\ errors = <<>>
    /\ batches = <<>>
    /\ batch = NoBatch
    /\ refreshResponse = Null
    /\ fetchedIds = {}
    /\ refreshRuns = 0
    /\ cacheVersions = {}

\* the tables and the clock of a refresh, and its first request
RefreshInit ==
    /\ canonical_items = CanonicalRows
    /\ store_products = RefreshProductRows
    /\ canonical_to_store_product = FixedMappings
    /\ price_cache = PriceCacheRows
    /\ now = RequestTime
    /\ bulk \in BOOLEAN
    /\ \E b \in RefreshBodies : RefreshHandlerStart(b)
    /\ refreshRuns = 1
    /\ cacheVersions = PriceCacheRows

RefreshCounts ==
    [refreshed |-> refreshed, skippedFresh |-> skippedFresh, failed |-> failed,
     total |-> Len(storeProducts), errors |-> errors]

refreshHandlerVars == <<storeProducts, cacheMap, refreshNowMs, refreshed, skippedFresh,
                        failed, errors, batches, batch, fetchedIds>>

\* lines 96-148: the request, the store_products query, and the answer when
\* nothing is selected
RefreshSelect(queryFails) ==
    /\ refreshPc = "start"
    /\ IF queryFails
       THEN /\ refreshResponse' = Reply(500, ErrorBody("Failed to load store products"))
            /\ refreshPc' = "done"
            /\ UNCHANGED storeProducts
       ELSE LET rows == SelectStoreProducts(store_products, refreshBody)
            IN /\ storeProducts' = rows
               /\ IF rows = <<>>
                  THEN /\ refreshResponse' =
                             Reply(200, [refreshed |-> 0, skippedFresh |-> 0, failed |-> 0,
                                         total |-> 0, errors |-> <<>>])
                       /\ refreshPc' = "done"
                  ELSE /\ refreshPc' = "cache"
                       /\ UNCHANGED refreshResponse
    /\ UNCHANGED <<refreshBody, bulk, cacheMap, refreshNowMs, refreshed, skippedFresh, failed,
                   errors, batches, batch, fetchedIds, refreshRuns, cacheVersions>>
    /\ UNCHANGED <<price_cache, nonRefreshVars>>

\* lines 150-195: the price_cache query, Date.now(), and the loop that sorts
\* the products into fresh, unusable and to refresh
RefreshLoadCache(queryFails) ==
    /\ refreshPc = "cache"
    /\ IF queryFails
       THEN /\ refreshResponse' = Reply(500, ErrorBody("Failed to load price cache"))
            /\ refreshPc' = "done"
            /\ UNCHANGED <<cacheMap, refreshNowMs, skippedFresh, failed, errors, batches>>
       ELSE LET rows == SelectCacheRows(price_cache, IdsOf(storeProducts),
                                        cachePostcodeOf(refreshBody.postcode))
                acc == classifyAll([skippedFresh |-> 0, failed |-> 0, errors |-> <<>>,
                                    toRefreshByStore |-> <<>>],
                                   storeProducts, 1, refreshBody.force, rows, now)
            IN /\ cacheMap' = rows
               /\ refreshNowMs' = now
               /\ skippedFresh' = acc.skippedFresh
               /\ failed' = acc.failed
               /\ errors' = acc.errors
               /\ batches' = batchesOf(acc.toRefreshByStore, 1, IF bulk THEN batchSize ELSE 1)
               /\ refreshPc' = "provider"
               /\ UNCHANGED refreshResponse
    /\ UNCHANGED <<refreshBody, bulk, storeProducts, refreshed, batch, fetchedIds, refreshRuns,
                   cacheVersions>>
    /\ UNCHANGED <<price_cache, nonRefreshVars>>

\* The provider call of the next batch (lines 205-214) or product (lines
\* 281-285): it throws, or it answers with a price for the products `priced`;
\* getProductPrice has a price for its product whenever it answers.
ProviderCall(throws, priced) ==
    /\ refreshPc = "provider"
    /\ batches # <<>>
    /\ fetchedIds' = fetchedIds \cup IdsOf(Head(batches))
    /\ batches' = Tail(batches)
    /\ IF throws
       THEN /\ priced = {}
            /\ failed' = failBatch(failed, Head(batches))
            /\ errors' = errors \o ErrorsOfBatch(Head(batches), "Provider error")
            /\ UNCHANGED <<batch, refreshPc>>
       ELSE /\ priced \subseteq IdsOf(Head(batches))
            /\ bulk \/ priced = IdsOf(Head(batches))
            /\ batch' = [products |-> Head(batches), priced |-> priced]
            /\ refreshPc' = "upsert"
            /\ UNCHANGED <<failed, errors>>
    /\ UNCHANGED <<refreshBody, bulk, storeProducts, cacheMap, refreshNowMs, refreshed,
                   skippedFresh, refreshResponse, refreshRuns, cacheVersions>>
    /\ UNCHANGED <<price_cache, nonRefreshVars>>

\* The next product of the answered call (lines 216-256, 287-310): without a
\* price it has failed; with one its row is upserted, and the upsert resolves
\* with an error or without.
Upsert(upsertFails) ==
    /\ refreshPc = "upsert"
    /\ LET product == Head(batch.products)
           rest == Tail(batch.products)
           row == upsertRowOf(product, cachePostcodeOf(refreshBody.postcode),
                              providerPriceOf(product.id, now), refreshNowMs)
       IN /\ IF product.id \notin batch.priced
             THEN /\ ~upsertFails
                  /\ failed' = failed + 1
                  /\ errors' = Append(errors, RefreshError(product.id, "provider_missing_price"))
                  /\ UNCHANGED <<refreshed, price_cache, cacheVersions>>
             ELSE IF upsertFails
             THEN /\ failed' = failed + 1
                  /\ errors' = Append(errors, RefreshError(product.id, "upsert failed"))
                  /\ UNCHANGED <<refreshed, price_cache, cacheVersions>>
             ELSE /\ price_cache' = upsert(price_cache, row)
                  /\ cacheVersions' = cacheVersions \cup {row}
                  /\ refreshed' = refreshed + 1
                  /\ UNCHANGED <<failed, errors>>
          /\ batch' = [batch EXCEPT !.products = rest]
          /\ refreshPc' = IF rest = <<>> THEN "provider" ELSE "upsert"
    /\ UNCHANGED <<refreshBody, bulk, storeProducts, cacheMap, refreshNowMs, skippedFresh,
                   batches, refreshResponse, fetchedIds, refreshRuns>>
    /\ UNCHANGED nonRefreshVars

\* lines 325-335
RefreshRespond ==
    /\ refreshPc = "provider"
    /\ batches = <<>>
    /\ refreshResponse' = Reply(200, RefreshCounts)
    /\ refreshPc' = "done"
    /\ UNCHANGED <<refreshBody, bulk, refreshHandlerVars, refreshRuns, cacheVersions>>
    /\ UNCHANGED <<price_cache, nonRefreshVars>>

\* the next request to the function, `elapsed` after the answer to the last
RefreshAgain(b, elapsed) ==
    /\ refreshPc = "done"
    /\ refreshRuns < MaxRefreshes
    /\ refreshRuns' = refreshRuns + 1
    /\ now' = now + elapsed
    /\ refreshPc' = "start"
    /\ refreshBody' = b
    /\ storeProducts' = <<>>
    /\ cacheMap' = {}
    /\ refreshNowMs' = 0
    /\ refreshed' = 0
    /\ skippedFresh' = 0
    /\ failed' = 0
    /\ errors' = <<>>
    /\ batches' = <<>>
    /\ batch' = NoBatch
    /\ refreshResponse' = Null
    /\ fetchedIds' = {}
    /\ UNCHANGED <<bulk, cacheVersions, price_cache>>
    /\ UNCHANGED <<canonical_items, store_products, canonical_to_store_product,
                   quote_logs, pc, body, aggregated, baseMissingItems, nowMs,
                   storeIdx, mappingByCanonical, priceCache, quotes, responsePayload,
                   response, failure, logOutcome,
                   hookVars, callVars, basketVars, unitVars, appVars>>

RefreshNext ==
    \/ \E queryFails \in BOOLEAN : RefreshSelect(queryFails)
    \/ \E queryFails \in BOOLEAN : RefreshLoadCache(queryFails)
    \/ \E throws \in BOOLEAN, priced \in SUBSET IdsOf(RefreshProductRows) :
          ProviderCall(throws, priced)
    \/ \E upsertFails \in BOOLEAN : Upsert(upsertFails)
    \/ RefreshRespond

\* ------------------------------------------------------------- appReducer
\* initialState (context/AppContext.tsx:32-49)
initialState ==
    [menu |-> <<>>,
     filters |-> [costTiers |-> <<1, 2, 3, 4>>, dietary |-> <<>>, maxCalories |-> Null,
                  minProtein |-> Null],
     preferences |-> [hasCompletedOnboarding |-> FALSE, dietaryPreferences |-> <<>>,
                      allergies |-> <<>>, householdSize |-> 2, defaultCostTier |-> 2],
     groceryList |-> <<>>]


\* the state the reducer is given: the parts of AppState kept here
AppState ==
    [menu |-> stateMenu,
     filters |-> stateFilters,
     preferences |-> statePreferences,
     groceryList |-> IF IsNull(groceryList) THEN <<>> ELSE Val(groceryList)]

InMenu(m, recipeId) == \E i \in DOMAIN m : m[i].recipeId = recipeId

\* the case without its test for a recipe already in the menu
ADD_TO_MENU_Unchecked(state, payload) ==
    [state EXCEPT !.menu = Append(@, payload)]

\* the cases of the reducer's switch (lines 57-81)
ADD_TO_MENU(state, payload) ==
    IF InMenu(state.menu, payload.recipeId) THEN state
    ELSE [state EXCEPT !.menu = Append(@, payload)]

REMOVE_FROM_MENU(state, payload) ==
    LET Keep(item) == item.recipeId # payload
    IN [state EXCEPT !.menu = SelectSeq(@, Keep)]

UPDATE_SERVINGS(state, payload) ==
    [state EXCEPT !.menu =
        [i \in DOMAIN @ |->
            IF @[i].recipeId = payload.recipeId
            THEN [@[i] EXCEPT !.servings = payload.servings]
            ELSE @[i]]]

CLEAR_MENU(state) == [state EXCEPT !.menu = <<>>, !.groceryList = <<>>]

appReducer(state, action) ==
    CASE action.type = "ADD_TO_MENU" -> ADD_TO_MENU(state, action.payload)
      [] action.type = "REMOVE_FROM_MENU" -> REMOVE_FROM_MENU(state, action.payload)
      [] action.type = "UPDATE_SERVINGS" -> UPDATE_SERVINGS(state, action.payload)
      [] action.type = "CLEAR_MENU" -> CLEAR_MENU(state)
      [] OTHER -> state

AppAction(type, payload) == [type |-> type, payload |-> payload]

\* dispatch(action): the state becomes appReducer(state, action)
Dispatch(action) ==
    LET next == appReducer(AppState, action)
    IN /\ stateMenu' = next.menu
       /\ stateFilters' = next.filters
       /\ statePreferences' = next.preferences
       /\ groceryList' = Some(next.groceryList)
       /\ lastAction' = Some(action)
       /\ UNCHANGED nonAppVars

\* the provider's helpers (lines 211-241)
addToMenu(recipeId) ==
    /\ ~InMenu(stateMenu, recipeId)
    /\ ~IsNull(getRecipeById(recipeId))
    /\ Dispatch(AppAction("ADD_TO_MENU",
                          [recipeId |-> recipeId,
                           servings |-> statePreferences.householdSize]))

removeFromMenu(recipeId) == Dispatch(AppAction("REMOVE_FROM_MENU", recipeId))

updateServings(recipeId, servings) ==
    Dispatch(AppAction("UPDATE_SERVINGS", [recipeId |-> recipeId, servings |-> servings]))

clearMenu == Dispatch(AppAction("CLEAR_MENU", Null))

\* a component that dispatches ADD_TO_MENU itself, with any item
DispatchAdd(item) == Dispatch(AppAction("ADD_TO_MENU", item))

MenuNext ==
    \/ \E recipeId \in RecipeIds : addToMenu(recipeId)
    \/ \E recipeId \in RecipeIds : removeFromMenu(recipeId)
    \/ \E recipeId \in RecipeIds, servings \in ServingsChoices :
          updateServings(recipeId, servings)
    \/ clearMenu
    \/ \E item \in MenuItems : DispatchAdd(item)

\* ------------------------------------------------------------ specifications
\* the hook before its component is used
HookIdle ==
    /\ hookMounted = FALSE
    /\ configured = TRUE
    /\ menu = "empty"
    /\ effectId = 0
    /\ liveEffect = 0
    /\ timer = 0
    /\ inFlight = {}
    /\ hookQuotes = Null
    /\ hookError = Null
    /\ isLoading = FALSE
    /\ lastSuccessRef = Null
    /\ uncaught = FALSE
    /\ lastOutcome = "none"
    /\ lastGood = Null
    /\ clearedSince = FALSE

\* the quote function with no request to serve
QuoteHandlerIdle ==
    /\ quote_logs = <<>>
    /\ pc = "idle"
    /\ body = [stores |-> <<>>, postcode |-> <<>>, items |-> <<>>]
    /\ aggregated = <<>>
    /\ baseMissingItems = <<>>
    /\ nowMs = 0
    /\ storeIdx = 0
    /\ mappingByCanonical = <<>>
    /\ priceCache = {}
    /\ quotes = <<>>
    /\ responsePayload = Null
    /\ response = Null
    /\ failure = Null
    /\ logOutcome = Null
    /\ firstCall = Null

\* and with nothing loaded
QuoteIdle ==
    /\ canonical_items = <<>>
    /\ store_products = <<>>
    /\ canonical_to_store_product = <<>>
    /\ price_cache = {}
    /\ now = 0
    /\ QuoteHandlerIdle

\* the app's state apart from the menu, as the reducer is first given it
AppIdle ==
    /\ stateFilters = initialState.filters
    /\ statePreferences = initialState.preferences
    /\ lastAction = Null

\* one request served by the quote function
Init == QuoteInit /\ HookIdle /\ BasketIdle /\ UnitsIdle /\ RefreshIdle /\ AppIdle
Next == QuoteNext
Spec == Init /\ [][Next]_vars

\* the hook under menu changes, timers, responses and an unmount
InitHook == HookInit /\ QuoteIdle /\ BasketIdle /\ UnitsIdle /\ RefreshIdle /\ AppIdle
SpecHook == InitHook /\ [][HookNext]_vars

\* the same, where a pending timer fires and a request in flight settles
RequestSettles ==
    \/ \E e \in 1..MaxEffects, r \in Responses : RequestSucceeds(e, r)
    \/ \E e \in 1..MaxEffects, message \in ErrorMessages : RequestFails(e, message)
SpecHookFair == SpecHook /\ WF_vars(TimerFire) /\ WF_vars(RequestSettles)

\* the same request served twice, over one of the shorter mapping tables
InitTwice ==
    /\ QuoteInit
    /\ HookIdle
    /\ BasketIdle
    /\ UnitsIdle
    /\ RefreshIdle
    /\ AppIdle
    /\ body.stores = <<"x", "y">>
    /\ Len(canonical_to_store_product) <= Len(FixedMappings) + 1
NextTwice ==
    \/ QuoteNext
    \/ \E elapsed \in ClockSteps : CallAgain(elapsed)
SpecTwice == InitTwice /\ [][NextTwice]_vars

\* one request of a larger basket at one store
InitWide == WideInit /\ HookIdle /\ BasketIdle /\ UnitsIdle /\ RefreshIdle /\ AppIdle
SpecWide == InitWide /\ [][QuoteNext]_vars

\* a menu, the quote request items and the grocery list made of it
InitBasket == BasketInit /\ QuoteIdle /\ HookIdle /\ UnitsIdle /\ RefreshIdle /\ AppIdle
SpecBasket == InitBasket /\ [][BasketNext]_vars

\* the menu under the reducer, from initialState
InitMenu ==
    /\ stateMenu = initialState.menu
    /\ groceryList = Some(initialState.groceryList)
    /\ quoteItems = Null
    /\ AppIdle
    /\ QuoteIdle
    /\ HookIdle
    /\ UnitsIdle
    /\ RefreshIdle
SpecMenu == InitMenu /\ [][MenuNext]_vars

\* one call of each copy of normalizeUnit
InitUnits == UnitsInit /\ QuoteIdle /\ HookIdle /\ BasketIdle /\ RefreshIdle /\ AppIdle
SpecUnits == InitUnits /\ [][UnitsNext]_vars

\* one request served by refresh-prices
InitRefresh ==
    /\ RefreshInit
    /\ QuoteHandlerIdle
    /\ HookIdle
    /\ BasketIdle
    /\ UnitsIdle
    /\ AppIdle
SpecRefresh == InitRefresh /\ [][RefreshNext]_vars

\* refreshes of the same listed products, one after the other: the next one
\* before the entries of the last have expired, or after
RefreshClockSteps == {1, 13}
InitRefreshes ==
    /\ InitRefresh
    /\ refreshBody.stores = <<>>
    /\ refreshBody.storeProductIds # <<>>
    /\ IsNull(refreshBody.limit)
NextRefreshes ==
    \/ RefreshNext
    \/ \E b \in RefreshBodies, elapsed \in RefreshClockSteps :
          /\ b.stores = refreshBody.stores
          /\ b.storeProductIds = refreshBody.storeProductIds
          /\ b.limit = refreshBody.limit
          /\ RefreshAgain(b, elapsed)
SpecRefreshes == InitRefreshes /\ [][NextRefreshes]_vars

\* a quote request served while a refresh of the whole catalog runs
ConcurrentItems ==
    {<<Item(<<" ", "A">>, Qty(150, "GRAM")), Item(<<"a", "B">>, Qty(2, "COUNT"))>>,
     <<Item(<<"b", " ">>, Qty(200, "GRAM"))>>}
InitConcurrent ==
    /\ canonical_items = CanonicalRows
    /\ store_products = RefreshProductRows
    /\ canonical_to_store_product = <<Mapping("c1", "p1", 1)>> \o FixedMappings
    /\ price_cache = PriceCacheRows
    /\ now = RequestTime
    /\ QuoteHandlerIdle
    /\ HookIdle
    /\ BasketIdle
    /\ UnitsIdle
    /\ AppIdle
    /\ bulk \in BOOLEAN
    /\ \E b \in RefreshBodies :
          /\ b.stores = <<>> /\ b.storeProductIds = <<>> /\ IsNull(b.limit)
          /\ b.postcode = <<>>
          /\ RefreshHandlerStart(b)
    /\ refreshRuns = 1
    /\ cacheVersions = PriceCacheRows
\* the request arrives
QuoteArrives(b) ==
    /\ pc = "idle"
    /\ pc' = "start"
    /\ body' = b
    /\ UNCHANGED <<dbVars, handlerVars, response, failure, logOutcome, nonQuoteVars>>
NextConcurrent ==
    \/ \E b \in [stores : {<<"x", "y">>}, postcode : PostcodeChoices, items : ConcurrentItems] :
          QuoteArrives(b)
    \/ QuoteNext
    \/ RefreshNext
SpecConcurrent == InitConcurrent /\ [][NextConcurrent]_vars

\* ---------------------------------------------------------------- properties
\* helpers of the properties: they describe results, they are not the handler
Range(f) == {f[i] : i \in DOMAIN f}

RECURSIVE SumLineTotal(_)
SumLineTotal(lines) ==
    IF lines = <<>> THEN RatOfInt(0)
    ELSE RatAdd(Head(lines).lineTotal, SumLineTotal(Tail(lines)))

RECURSIVE SumConsumed(_)
SumConsumed(lines) ==
    IF lines = <<>> THEN RatOfInt(0)
    ELSE RatAdd(Head(lines).consumedEstimate, SumConsumed(Tail(lines)))

RECURSIVE SumValues(_)
SumValues(its) ==
    IF its = <<>> THEN 0 ELSE Val(Head(its).required).value + SumValues(Tail(its))

Replied(status) == ~IsNull(response) /\ Val(response).status = status
Aggregated == pc \in {"mappings", "cache", "build", "log", "respond"} \/ quotes # <<>>

\* the names a canonical row answers to: its name and aliases, trimmed and lower-cased
KeysOf(row) ==
    {toLowerCase(trim(row.name))} \cup {toLowerCase(trim(a)) : a \in Range(row.aliases)}
Matches(item, row) == toLowerCase(trim(item.ingredientName)) \in KeysOf(row)
Unmatched(item) == \A row \in Range(canonical_items) : ~Matches(item, row)

\* the request items that count towards canonical row `row`
ItemsOf(row) ==
    SelectSeq(body.items,
              LAMBDA it : Matches(it, row) /\ ~IsNull(it.required)
                          /\ Val(it.required).unit = row.unit_type)

\* the store-level entries of a quote's missingItems, after the shared ones
StoreMissing(q) == SubSeq(q.missingItems, Len(baseMissingItems) + 1, Len(q.missingItems))

CachePostcode == cachePostcodeOf(body.postcode)

\* C1: a backing-store failure while quoting store x leaves a valid StoreQuote
\* for every other requested store y in the response.
C1_StoreFailureIsolated ==
    (pc = "done" /\ ~IsNull(failure) /\ Val(failure).store \in Stores) =>
        \A y \in Range(body.stores) \ {Val(failure).store} :
            /\ Replied(200)
            /\ \E q \in Range(Val(response).body.quotes) : q.store = y

\* C2: packsNeeded is the least n with n * packSize >= required when
\* packSize > 0, and 0 when packSize <= 0, in every line item.
C2_PacksNeededIsCeiling ==
    \A q \in Range(quotes) : \A l \in Range(q.lineItems) :
        IF l.packSize.value > 0
        THEN /\ l.packsNeeded * l.packSize.value >= l.required.value
             /\ (l.packsNeeded - 1) * l.packSize.value < l.required.value
        ELSE l.packsNeeded = 0

C2_Witness ==
    \E q \in Range(quotes) : \E l \in Range(q.lineItems) :
        l.required.value = 400 /\ l.packSize.value = 200 /\ l.packsNeeded = 2

C2_WitnessNoPackSize ==
    \E q \in Range(quotes) : \E l \in Range(q.lineItems) :
        l.packSize.value = 0 /\ l.packsNeeded = 0

C2_WitnessPartialPack ==
    \E q \in Range(quotes) : \E l \in Range(q.lineItems) :
        l.required.value = 350 /\ l.packSize.value = 200 /\ l.packsNeeded = 2

\* C3: when a store's quote is built, every selected store product of the
\* right unit that has a cache entry in the request's bucket becomes a line
\* item at that entry's price, counted in basketTotal and not listed as
\* missing; the line is "stale" with a warning on the quote when
\* now >= ttlExpiresAt, and "cached" when now < ttlExpiresAt.
C3_EntryUsed(q) ==
    \A m \in Range(mappingByCanonical) : \A a \in Range(aggregated) :
      \A row \in price_cache :
        (/\ a.item.id = m.canonical_item_id
         /\ Val(m.store_products).pack_size_unit = a.item.unit_type
         /\ row.store_product_id = Val(m.store_products).id
         /\ row.postcode_area = CachePostcode)
        => /\ \E l \in Range(q.lineItems) :
                /\ l.canonicalItemId = a.item.id
                /\ l.storeProductId = row.store_product_id
                /\ l.price = row.price
                /\ l.fetchedAt = row.fetched_at
                /\ nowMs >= row.ttl_expires_at => l.priceSource = "stale" /\ q.warnings # <<>>
                /\ nowMs < row.ttl_expires_at => l.priceSource = "cached"
           /\ q.basketTotal = toFixed2(SumLineTotal(q.lineItems))
           /\ \A mi \in Range(StoreMissing(q)) : mi.ingredientName # a.item.name

C3_StaleEntryStillPriced ==
    [][pc = "build" => C3_EntryUsed(quotes'[Len(quotes')])]_vars

C3_Witness ==
    \E q \in Range(quotes) : \E l \in Range(q.lineItems) :
        /\ l.priceSource = "stale"
        /\ l.lineTotal.n > 0
        /\ q.warnings # <<>>
        /\ \E k \in Range(q.lineItems) : k.priceSource = "cached"

\* C4: in every StoreQuote each aggregated canonical item is either one line
\* item or one store-level missing item (no_store_mapping, unit_mismatch or
\* no_cached_price), the shared missing items come first, the two lists
\* together count the aggregated items plus the items rejected in aggregation,
\* missingCount is the length of missingItems, and a request only ends in a
\* 500 for a failed query or an item without `required`.
C4_ItemsAccountedOnce ==
    /\ \A q \in Range(quotes) :
         /\ \A a \in Range(aggregated) :
              Cardinality({i \in DOMAIN q.lineItems :
                              q.lineItems[i].canonicalItemId = a.item.id})
              + Cardinality({i \in DOMAIN StoreMissing(q) :
                              StoreMissing(q)[i].ingredientName = a.item.name}) = 1
         /\ \A mi \in Range(StoreMissing(q)) :
              mi.reason \in {"no_store_mapping", "unit_mismatch", "no_cached_price"}
         /\ SubSeq(q.missingItems, 1, Len(baseMissingItems)) = baseMissingItems
         /\ Len(q.lineItems) + Len(q.missingItems) = Len(aggregated) + Len(baseMissingItems)
         /\ q.missingCount = Len(q.missingItems)
    /\ Replied(500) =>
         ~IsNull(failure) \/ \E it \in Range(body.items) : IsNull(it.required)

C4_Witness ==
    /\ Replied(200)
    /\ baseMissingItems # <<>>
    /\ \E q \in Range(quotes) : q.lineItems # <<>>
    /\ \E q \in Range(quotes) :
         \E mi \in Range(StoreMissing(q)) : mi.reason = "no_cached_price"

C4_WitnessUnitMismatch ==
    \E q \in Range(quotes) :
        \E mi \in Range(StoreMissing(q)) : mi.reason = "unit_mismatch"

C4_WitnessNoStoreMapping ==
    \E q \in Range(quotes) :
        \E mi \in Range(StoreMissing(q)) : mi.reason = "no_store_mapping"

\* C5: a requested name that, trimmed and lower-cased, is no canonical name and
\* no alias is listed as no_canonical_match in the quote of every requested
\* store and gives no line item; a name that is one is never listed so.
C5_QuoteReportsUnmatched(q, unmatched, matchedIds) ==
    /\ \A i \in DOMAIN body.items :
         i \in unmatched <=>
            \E mi \in Range(q.missingItems) :
                /\ mi.ingredientName = body.items[i].ingredientName
                /\ mi.reason = "no_canonical_match"
    /\ Cardinality({i \in DOMAIN q.missingItems :
                        q.missingItems[i].reason = "no_canonical_match"})
         = Cardinality(unmatched)
    /\ \A l \in Range(q.lineItems) : l.canonicalItemId \in matchedIds
    /\ q.basketTotal = toFixed2(SumLineTotal(q.lineItems))

C5_UnmatchedNameReported ==
    LET unmatched == {i \in DOMAIN body.items : Unmatched(body.items[i])}
        matchedIds == {row.id : row \in {r \in Range(canonical_items) :
                                            \E it \in Range(body.items) : Matches(it, r)}}
    IN /\ \A q \in Range(quotes) : C5_QuoteReportsUnmatched(q, unmatched, matchedIds)
       /\ Replied(200) =>
            \A store \in Range(body.stores) :
               \E q \in Range(Val(response).body.quotes) :
                   q.store = store /\ C5_QuoteReportsUnmatched(q, unmatched, matchedIds)

C5_Witness ==
    /\ Replied(200)
    /\ \E it \in Range(body.items) : Unmatched(it)
    /\ \E q \in Range(quotes) : q.lineItems # <<>>

\* C6: basketTotal is the sum of the lines' lineTotal and consumedEstimate the
\* sum of the lines' consumedEstimate, each rounded to the penny once, after
\* the exact per-line values were added; lineTotal is packsNeeded * price.
C6_TotalsAreSumsOfLines ==
    \A q \in Range(quotes) :
        /\ q.basketTotal = toFixed2(SumLineTotal(q.lineItems))
        /\ q.consumedEstimate = toFixed2(SumConsumed(q.lineItems))
        /\ \A l \in Range(q.lineItems) : l.lineTotal = RatOfInt(l.packsNeeded * l.price)

C6_Witness ==
    \E q \in Range(quotes) :
        /\ Len(q.lineItems) = 2
        /\ \A l \in Range(q.lineItems) : l.consumedEstimate.d # 1
        /\ RatOfInt(q.consumedEstimate) # SumConsumed(q.lineItems)

\* C7: the request items that resolve to one canonical item give one
\* aggregated requirement, the sum of their values, hence at most one line
\* item per canonical item in a store's quote, with packsNeeded computed from
\* the sum.
C7_RequirementsSummed ==
    Aggregated =>
      \A row \in Range(canonical_items) :
        LET entries == {i \in DOMAIN aggregated : aggregated[i].item.id = row.id}
            its == ItemsOf(row)
            sum == SumValues(its)
        IN /\ Cardinality(entries) = IF its = <<>> THEN 0 ELSE 1
           /\ \A i \in entries : aggregated[i].requiredValue = sum
           /\ \A q \in Range(quotes) :
                LET lines == {i \in DOMAIN q.lineItems :
                                 q.lineItems[i].canonicalItemId = row.id}
                IN /\ Cardinality(lines) <= 1
                   /\ \A i \in lines :
                        LET l == q.lineItems[i]
                        IN /\ l.required.value = sum
                           /\ l.packSize.value > 0 =>
                                /\ l.packsNeeded * l.packSize.value >= sum
                                /\ (l.packsNeeded - 1) * l.packSize.value < sum

C7_Witness ==
    \E q \in Range(quotes) : \E l \in Range(q.lineItems) :
        /\ Len(body.items) = 2
        /\ body.items[1].ingredientName # body.items[2].ingredientName
        /\ l.required.value = 350
        /\ l.packsNeeded = 2

\* C8: the store product used for a canonical item at a store is, among the
\* mapping rows whose product is of that store and active, the first row, in
\* the rows' order, of those with the greatest priority.
EligibleRows(id, store) ==
    {i \in DOMAIN canonical_to_store_product :
        LET row == canonical_to_store_product[i]
            p == ProductById(store_products, row.store_product_id)
        IN row.canonical_item_id = id /\ p.store = store /\ p.active}

FirstOfGreatestPriority(rows) ==
    CHOOSE i \in rows :
        /\ \A j \in rows : canonical_to_store_product[j].priority
                               <= canonical_to_store_product[i].priority
        /\ \A j \in rows : canonical_to_store_product[j].priority
                               = canonical_to_store_product[i].priority => i <= j

LastOfGreatestPriority(rows) ==
    CHOOSE i \in rows :
        /\ \A j \in rows : canonical_to_store_product[j].priority
                               <= canonical_to_store_product[i].priority
        /\ \A j \in rows : canonical_to_store_product[j].priority
                               = canonical_to_store_product[i].priority => j <= i

SelectionIs(Pick(_)) ==
    pc = "cache" =>
      \A a \in Range(aggregated) :
        LET rows == EligibleRows(a.item.id, body.stores[storeIdx])
            chosen == mappingByCanonicalGet(mappingByCanonical, a.item.id)
        IN IF rows = {} THEN IsNull(chosen)
           ELSE /\ ~IsNull(chosen)
                /\ Val(Val(chosen).store_products).id
                     = canonical_to_store_product[Pick(rows)].store_product_id

C8_FirstOfTiedMappingsChosen == SelectionIs(FirstOfGreatestPriority)

\* what the handler does instead: of the rows tied for the greatest priority
\* the last one is used
C8_LastOfTiedMappingsChosen == SelectionIs(LastOfGreatestPriority)

\* C9: the quote_logs insert is attempted once the response payload is
\* complete, and however it ends (inserted, error returned, exception) the
\* handler answers 200 with that payload.
C9_LogFailureNeverChangesResponse ==
    /\ pc \in {"log", "respond"} \/ ~IsNull(logOutcome) =>
         /\ ~IsNull(responsePayload)
         /\ Val(responsePayload).quotes = quotes
         /\ Len(quotes) = Len(body.stores)
    /\ pc = "done" /\ ~IsNull(logOutcome) => response = Reply(200, Val(responsePayload))
    /\ \A row \in Range(quote_logs) : row.response = Val(responsePayload)
    /\ Len(quote_logs) = IF logOutcome = Some("ok") THEN 1 ELSE 0

C9_Witness ==
    /\ pc = "done"
    /\ logOutcome = Some("throws")
    /\ Replied(200)
    /\ Val(response).body.quotes # <<>>

\* C10 as claimed: with a menu to quote, whenever the latest request whose
\* result the hook took has failed, the hook reports a fallback with an error,
\* its quotes are the latest successful response (null when there is none) and
\* the shop screen shows the local estimate.
FallbackShown ==
    /\ isFallback
    /\ hookQuotes = lastGood
    /\ ~hasQuoteData
    /\ basketTitle = "Local Basket Estimate"
    /\ ~uncaught

C11_QuoteIsReadOnly ==
    /\ [](Len(quote_logs) <= 1)
    /\ [][/\ UNCHANGED <<canonical_items, store_products, canonical_to_store_product,
                         price_cache>>
          /\ quote_logs' # quote_logs =>
                pc = "log" /\ quote_logs' = Append(quote_logs, LogRow)]_vars

C11_Witness ==
    /\ Replied(200)
    /\ Len(quote_logs) = 1
    /\ \E q \in Range(Val(response).body.quotes) : \E l \in Range(q.lineItems) :
          /\ l.priceSource = "stale"
          /\ \E row \in price_cache :
                /\ row.store_product_id = l.storeProductId
                /\ row.postcode_area = CachePostcode
                /\ row.ttl_expires_at <= nowMs

\* a StoreQuote without its lastUpdated field
WithoutLastUpdated(q) == [f \in DOMAIN q \ {"lastUpdated"} |-> q[f]]
SameQuotesButLastUpdated(qs1, qs2) ==
    /\ Len(qs1) = Len(qs2)
    /\ \A i \in DOMAIN qs1 : WithoutLastUpdated(qs1[i]) = WithoutLastUpdated(qs2[i])
AnsweredTwice == pc = "done" /\ ~IsNull(firstCall) /\ Replied(200)

\* the cache entries the two calls priced from
EntriesPriced(qs) ==
    {row \in price_cache :
        /\ row.postcode_area = CachePostcode
        /\ \E q \in Range(qs) : \E l \in Range(q.lineItems) :
              l.storeProductId = row.store_product_id}
ExpiredBetween(row, t1, t2) == (row.ttl_expires_at > t1) # (row.ttl_expires_at > t2)

\* C12 (as stated): two calls with identical request inputs and unchanged
\* catalog and price cache return identical StoreQuote values for every store,
\* except for lastUpdated.
C12_SameQuotesOnRepeat ==
    AnsweredTwice =>
        SameQuotesButLastUpdated(Val(firstCall).quotes, Val(response).body.quotes)

\* C12 (amended): the same, provided no cache entry the quote prices from
\* expires after the first call and not after the second.
C12_SameQuotesOnRepeatUnlessExpired ==
    AnsweredTwice =>
        \/ \E row \in EntriesPriced(Val(firstCall).quotes) :
              ExpiredBetween(row, Val(firstCall).nowMs, nowMs)
        \/ SameQuotesButLastUpdated(Val(firstCall).quotes, Val(response).body.quotes)

C12_Witness ==
    /\ AnsweredTwice
    /\ nowMs > Val(firstCall).nowMs
    /\ \E q \in Range(Val(response).body.quotes) :
          /\ q.warnings # <<>>
          /\ \E l \in Range(q.lineItems) : l.priceSource = "cached"
          /\ \E l \in Range(q.lineItems) : l.priceSource = "stale"
    /\ \A row \in EntriesPriced(Val(firstCall).quotes) :
          ~ExpiredBetween(row, Val(firstCall).nowMs, nowMs)

\* the menus that hold the same (recipe, servings) pairs as `m`, in any order
Reorderings(m) == {[i \in DOMAIN m |-> m[p[i]]] : p \in Permutations(DOMAIN m)}

\* quote request items as a set of requirements per ingredient key
KeyOfItem(it) ==
    IF IsNull(it.ingredientName) THEN <<>> ELSE toLowerCase(trim(Val(it.ingredientName)))
Requirements(items) ==
    {[key |-> KeyOfItem(it), value |-> it.required.value, unit |-> it.required.unit] :
        it \in Range(items)}
Totals(items) == {[key |-> KeyOfItem(it), value |-> it.required.value] : it \in Range(items)}

\* C13: two menus that hold the same (recipe, servings) pairs in a different
\* order give the same set of aggregated requirements: the same total value
\* and the same unit family for every item.
C13_AggregationOrderIndependent ==
    ~IsNull(quoteItems) =>
        \A other \in Reorderings(stateMenu) :
            Requirements(buildQuoteItems(other)) = Requirements(Val(quoteItems))

\* the part of C13 that holds: the total values do not depend on the order
C13_TotalsOrderIndependent ==
    ~IsNull(quoteItems) =>
        \A other \in Reorderings(stateMenu) :
            Totals(buildQuoteItems(other)) = Totals(Val(quoteItems))

\* the table of the unit names: family and factor
UnitRows ==
    {[name |-> <<"g">>, family |-> "GRAM", factor |-> 1],
     [name |-> <<"g", "r", "a", "m">>, family |-> "GRAM", factor |-> 1],
     [name |-> <<"g", "r", "a", "m", "s">>, family |-> "GRAM", factor |-> 1],
     [name |-> <<"k", "g">>, family |-> "GRAM", factor |-> 1000],
     [name |-> <<"m", "l">>, family |-> "ML", factor |-> 1],
     [name |-> <<"l">>, family |-> "ML", factor |-> 1000],
     [name |-> <<"t", "s", "p">>, family |-> "ML", factor |-> 5],
     [name |-> <<"t", "b", "s", "p">>, family |-> "ML", factor |-> 15],
     [name |-> <<"p", "i", "e", "c", "e">>, family |-> "COUNT", factor |-> 1],
     [name |-> <<"p", "i", "e", "c", "e", "s">>, family |-> "COUNT", factor |-> 1],
     [name |-> <<"c", "l", "o", "v", "e">>, family |-> "COUNT", factor |-> 1],
     [name |-> <<"c", "l", "o", "v", "e", "s">>, family |-> "COUNT", factor |-> 1]}

\* the row of a unit string, whatever its case; the fallback row for any other
UnitRowOf(unit) ==
    LET lower == toLowerCase(trim(unit))
    IN IF \E row \in UnitRows : row.name = lower
       THEN CHOOSE row \in UnitRows : row.name = lower
       ELSE [name |-> lower, family |-> "COUNT", factor |-> 1]

TableResult(unit, value) ==
    [unit |-> UnitRowOf(unit).family,
     value |-> Rat(value.n * UnitRowOf(unit).factor, value.d)]

\* C19: either copy of normalizeUnit returns, for every unit string and value,
\* the family and the value times the factor of the unit's row in the table,
\* whatever the case of the string, and COUNT with the value unchanged for a
\* string that has no row; so the two copies return the same result.
C19_NormalizeUnitIsTheTable ==
    /\ ~IsNull(appNormalized) => Val(appNormalized) = TableResult(unitArg, valueArg)
    /\ ~IsNull(seedNormalized) => Val(seedNormalized) = TableResult(unitArg, valueArg)
    /\ ~IsNull(appNormalized) /\ ~IsNull(seedNormalized) => appNormalized = seedNormalized

C19_Witness ==
    /\ unitArg = <<" ", "T", "b", "s", "p", " ">>
    /\ valueArg = RatOfInt(3)
    /\ appNormalized = Some([unit |-> "ML", value |-> RatOfInt(45)])
    /\ seedNormalized = appNormalized

C19_WitnessKg ==
    /\ unitArg = <<"K", "G">>
    /\ valueArg = RatOfInt(2)
    /\ seedNormalized = Some([unit |-> "GRAM", value |-> RatOfInt(2000)])
    /\ seedNormalized = appNormalized

C19_WitnessFallback ==
    /\ unitArg = <<"b", "u", "n", "c", "h">>
    /\ valueArg = Rat(1, 2)
    /\ appNormalized = Some([unit |-> "COUNT", value |-> Rat(1, 2)])
    /\ seedNormalized = appNormalized

IngredientPositions == UNION {DOMAIN Recipes[r].ingredients : r \in DOMAIN Recipes}

\* the (menu item, ingredient) pairs of a menu whose recipe is known
IngredientPairs(m) ==
    {p \in (DOMAIN m) \X IngredientPositions :
        /\ ~IsNull(getRecipeById(m[p[1]].recipeId))
        /\ p[2] \in DOMAIN Val(getRecipeById(m[p[1]].recipeId)).ingredients}
IngredientAt(m, p) == Val(getRecipeById(m[p[1]].recipeId)).ingredients[p[2]]
RawNameAt(m, p) ==
    IF ~IsNull(IngredientAt(m, p).canonicalName) THEN Val(IngredientAt(m, p).canonicalName)
    ELSE IF ~IsNull(IngredientAt(m, p).name) THEN Val(IngredientAt(m, p).name)
    ELSE <<>>

\* quantity * (menuItem.servings / recipe.servings), times the unit's factor
ScaledAt(m, p, factor) ==
    IF IsNull(IngredientAt(m, p).quantity) THEN RatOfInt(0)
    ELSE Rat(Val(IngredientAt(m, p).quantity) * factor * m[p[1]].servings,
             Val(getRecipeById(m[p[1]].recipeId)).servings)
FactorAt(m, p) ==
    IF IsNull(IngredientAt(m, p).unit) THEN 1 ELSE UnitRowOf(Val(IngredientAt(m, p).unit)).factor

RECURSIVE SumNormalized(_, _)
SumNormalized(m, pairs) ==
    IF pairs = {} THEN RatOfInt(0)
    ELSE LET p == CHOOSE q \in pairs : TRUE
         IN RatAdd(ScaledAt(m, p, FactorAt(m, p)), SumNormalized(m, pairs \ {p}))

RECURSIVE SumScaled(_, _)
SumScaled(m, pairs) ==
    IF pairs = {} THEN RatOfInt(0)
    ELSE LET p == CHOOSE q \in pairs : TRUE
         IN RatAdd(ScaledAt(m, p, 1), SumScaled(m, pairs \ {p}))

\* the pairs that count towards a quote request item
QuotePairs(m) ==
    {p \in IngredientPairs(m) :
        toLowerCase(trim(RawNameAt(m, p))) # <<>> /\ ~IsNull(IngredientAt(m, p).quantity)}

C20_WitnessTwoRecipes ==
    /\ stateMenu = <<[recipeId |-> "r2", servings |-> 1], [recipeId |-> "r3", servings |-> 1]>>
    /\ ~IsNull(quoteItems)
    /\ \E it \in Range(Val(quoteItems)) :
          KeyOfItem(it) = Flour /\ it.required = [value |-> RatOfInt(510), unit |-> "GRAM"]

\* The region bucket of a postcode: GLOBAL for none (or only spaces), else the
\* upper-cased postcode, surrounding spaces dropped, up to its first space.
RegionBucket(postcode) ==
    LET t == toUpperCase(trim(postcode))
    IN IF t = <<>> THEN GLOBAL
       ELSE CHOOSE b \in {SubSeq(t, 1, k) : k \in 1..Len(t)} :
               /\ \A i \in DOMAIN b : ~IsSpace(b[i])
               /\ Len(b) = Len(t) \/ IsSpace(t[Len(b) + 1])

\* C14: a store's quote prices an item only from the cache entry of the
\* selected product in the request's region bucket; when that bucket has no
\* entry for the product the item is missing with reason no_cached_price and
\* has no line, whatever other buckets hold.
C14_BucketOnly(q) ==
    \A m \in Range(mappingByCanonical) : \A a \in Range(aggregated) :
        (/\ a.item.id = m.canonical_item_id
         /\ Val(m.store_products).pack_size_unit = a.item.unit_type)
        => LET entries == {row \in price_cache :
                              /\ row.store_product_id = Val(m.store_products).id
                              /\ row.postcode_area = RegionBucket(body.postcode)}
           IN IF entries = {}
              THEN /\ \E mi \in Range(StoreMissing(q)) :
                        mi.ingredientName = a.item.name /\ mi.reason = "no_cached_price"
                   /\ \A l \in Range(q.lineItems) : l.canonicalItemId # a.item.id
              ELSE \E l \in Range(q.lineItems) : \E row \in entries :
                        /\ l.canonicalItemId = a.item.id
                        /\ l.price = row.price
                        /\ l.fetchedAt = row.fetched_at

C14_PricedFromRequestBucketOnly ==
    [][pc = "build" => C14_BucketOnly(quotes'[Len(quotes')])]_vars

\* a product with an entry in GLOBAL only, asked for in bucket A1
C14_Witness ==
    /\ Replied(200)
    /\ body.postcode = PostcodeA1
    /\ Val(response).body.meta.postcodeArea = AreaA1
    /\ \E q \in Range(Val(response).body.quotes) :
          /\ q.store = "x"
          /\ \E mi \in Range(q.missingItems) :
                /\ mi.reason = "no_cached_price"
                /\ \E c \in Range(canonical_items) : \E row \in price_cache :
                      /\ c.name = mi.ingredientName
                      /\ row.postcode_area = GLOBAL
                      /\ mappingGet(SelectMappingRows(canonical_to_store_product, store_products,
                                                      {c.id}, "x"),
                                    Len(SelectMappingRows(canonical_to_store_product,
                                                          store_products, {c.id}, "x")),
                                    c.id)
                         = Some([canonical_item_id |-> c.id,
                                 priority |-> 1,
                                 store_products |-> Some(ProductById(store_products,
                                                                     row.store_product_id))])

\* a product priced from its A1 entry although it has a GLOBAL one too
C14_WitnessOtherBucket ==
    /\ Replied(200)
    /\ body.postcode = PostcodeA1
    /\ \E q \in Range(Val(response).body.quotes) : \E l \in Range(q.lineItems) :
          l.storeProductId = "p2" /\ l.price = 130

\* the cache entry a line item was priced from
EntryOfLine(l) ==
    CHOOSE row \in price_cache :
        row.store_product_id = l.storeProductId /\ row.postcode_area = CachePostcode

\* unitPrice = cachedUnitPrice ?? (packSize > 0 ? price / packSize : null)
UnitPriceOfEntry(row, packSize) ==
    IF ~IsNull(row.unit_price) THEN row.unit_price
    ELSE IF packSize > 0 THEN Some(Rat(row.price, packSize))
    ELSE Null

C17_LineFollowsUnitPrice(l) ==
    LET unitPrice == UnitPriceOfEntry(EntryOfLine(l), l.packSize.value)
    IN /\ l.unitPrice = unitPrice
       /\ l.consumedEstimate = IF IsNull(unitPrice) THEN l.lineTotal
                                ELSE RatMulInt(Val(unitPrice), l.required.value)

\* C17: every line item's unitPrice is the cached unit price when there is
\* one, else price / packSize when packSize > 0, else null; consumedEstimate is
\* required * unitPrice whenever unitPrice is not null, a unit price of 0
\* included, and lineTotal only when unitPrice is null.
C17_ConsumedEstimateFromUnitPrice ==
    \A q \in Range(quotes) : \A l \in Range(q.lineItems) : C17_LineFollowsUnitPrice(l)

\* the part of C17 that holds: the same for every unit price other than 0
C17_ConsumedEstimateUnlessZero ==
    \A q \in Range(quotes) : \A l \in Range(q.lineItems) :
        LET unitPrice == UnitPriceOfEntry(EntryOfLine(l), l.packSize.value)
        IN IF ~IsNull(unitPrice) /\ RatIsZero(Val(unitPrice))
           THEN l.unitPrice = Null /\ l.consumedEstimate = l.lineTotal
           ELSE C17_LineFollowsUnitPrice(l)

\* C18: when the store product selected for a canonical item has a pack unit
\* other than the item's unitType, the store's quote lists the item as missing
\* with reason unit_mismatch and has no line for it; in every line item
\* packSize.unit equals required.unit.
C18_NoWrongUnitLine(q) ==
    /\ \A l \in Range(q.lineItems) : l.packSize.unit = l.required.unit
    /\ \A m \in Range(mappingByCanonical) : \A a \in Range(aggregated) :
          (/\ a.item.id = m.canonical_item_id
           /\ Val(m.store_products).pack_size_unit # a.item.unit_type)
          => /\ \E mi \in Range(StoreMissing(q)) :
                    mi.ingredientName = a.item.name /\ mi.reason = "unit_mismatch"
             /\ \A l \in Range(q.lineItems) : l.canonicalItemId # a.item.id

C18_PackUnitMatchesRequirement ==
    [][pc = "build" => C18_NoWrongUnitLine(quotes'[Len(quotes')])]_vars

\* c1 (GRAM) mapped to the six-pack p4 (COUNT), which has a cache entry and
\* prices c2 in the same quote
C18_Witness ==
    /\ Replied(200)
    /\ \E q \in Range(Val(response).body.quotes) :
          /\ \E mi \in Range(q.missingItems) :
                mi.reason = "unit_mismatch" /\ mi.ingredientName = CanonicalRows[1].name
          /\ \E l \in Range(q.lineItems) :
                l.storeProductId = "p4" /\ l.packSize.unit = "COUNT" /\ l.required.unit = "COUNT"
          /\ \E i \in DOMAIN canonical_to_store_product :
                canonical_to_store_product[i] = Mapping("c1", "p4", 2)

InvalidBasket ==
    \/ body.stores = <<>>
    \/ body.items = <<>>
    \/ \E it \in Range(body.items) : IsNull(it.required)

\* C15: a request without stores, without items or with an item that has no
\* required quantity and unit never gets as far as a store-mapping or
\* price-cache query, and ends with the validation error (400).
C15_InvalidBasketRejected ==
    InvalidBasket =>
        /\ pc \in {"start", "canonical", "done"}
        /\ pc = "done" => Replied(400) \/ ~IsNull(failure)

\* the part of C15 that holds: a request without stores or without items
C15_EmptyRequestRejected ==
    (body.stores = <<>> \/ body.items = <<>>) =>
        /\ pc \in {"start", "done"}
        /\ pc = "done" => Replied(400)

\* the denominators of the missing ratio: the items of the request, and the
\* entries the handler counts (one per canonical item that some request item
\* resolves to with its unit, one per request item rejected in aggregation)
RequestedItems == Len(body.items)
CountedItems ==
    Cardinality({c \in DOMAIN canonical_items : ItemsOf(canonical_items[c]) # <<>>})
    + Cardinality({i \in DOMAIN body.items :
                      \/ Unmatched(body.items[i])
                      \/ \E row \in Range(canonical_items) :
                            /\ Matches(body.items[i], row)
                            /\ Val(body.items[i].required).unit # row.unit_type})

HasWarning(q, w) == \E i \in DOMAIN q.warnings : q.warnings[i] = w
StaleWarningIffStaleLine(q) ==
    HasWarning(q, StaleWarning) <=> \E l \in Range(q.lineItems) : l.priceSource = "stale"

WellFormed == \A it \in Range(body.items) : ~IsNull(it.required)

\* C16 (as stated): a quote has the basket-incomplete warning exactly when
\* missingItems.length / (number of requested items) > 0.2, and the
\* stale-prices warning exactly when one of its lines is stale.
C16_WarningsByRequestedItems ==
    WellFormed =>
      \A q \in Range(quotes) :
        /\ HasWarning(q, MissingWarning) <=> 5 * Len(q.missingItems) > RequestedItems
        /\ StaleWarningIffStaleLine(q)

\* C16 (amended): the same with the ratio taken over the requested canonical
\* items and the request items rejected in aggregation.
C16_WarningsByCountedItems ==
    WellFormed =>
      \A q \in Range(quotes) :
        /\ HasWarning(q, MissingWarning) <=> 5 * Len(q.missingItems) > CountedItems
        /\ StaleWarningIffStaleLine(q)
        /\ Len(q.warnings) = Cardinality({w \in {MissingWarning, StaleWarning} :
                                              HasWarning(q, w)})

\* one item of five missing: a ratio of exactly 0.2, no basket-incomplete warning
C16_Witness ==
    /\ Replied(200)
    /\ WellFormed
    /\ \E q \in Range(Val(response).body.quotes) :
          /\ Len(q.missingItems) = 1
          /\ CountedItems = 5
          /\ q.warnings = <<StaleWarning>>

\* one item of four missing, and a stale line: both warnings
C16_WitnessBothWarnings ==
    /\ Replied(200)
    /\ WellFormed
    /\ \E q \in Range(Val(response).body.quotes) :
          /\ Len(q.missingItems) = 1
          /\ CountedItems = 4
          /\ q.warnings = <<MissingWarning, StaleWarning>>

\* -------------------------------------------------------------------- C21
\* the line item is made of the one version `row` of its cache entry
LineOfVersion(l, row) ==
    LET unitPrice == UnitPriceOfEntry(row, l.packSize.value)
    IN /\ row.store_product_id = l.storeProductId
       /\ row.postcode_area = CachePostcode
       /\ l.price = row.price
       /\ l.unitPrice = IF Truthy(unitPrice) THEN unitPrice ELSE Null
       /\ l.fetchedAt = row.fetched_at
       /\ l.priceSource = IF nowMs < row.ttl_expires_at THEN "cached" ELSE "stale"

\* C21: while a refresh upserts cache entries, the quote handler can always
\* take its next step, and every line item of its answer has price, unitPrice,
\* fetchedAt and freshness (against the quote's one nowMs) of one and the same
\* committed version of its cache entry.
C21_LinesOfOneCommittedVersion ==
    \A q \in Range(quotes) : \A l \in Range(q.lineItems) :
        \E row \in cacheVersions : LineOfVersion(l, row)

\* a quote answered from a refreshed version of one entry and from a version
\* of another entry that the refresh has replaced since
C21_Witness ==
    /\ Replied(200)
    /\ \E q \in Range(Val(response).body.quotes) : \E l \in Range(q.lineItems) :
          \E row \in cacheVersions \ PriceCacheRows : LineOfVersion(l, row)
    /\ \E q \in Range(Val(response).body.quotes) : \E l \in Range(q.lineItems) :
          \E row \in PriceCacheRows \ price_cache : LineOfVersion(l, row)

\* -------------------------------------------------------------------- C22
\* the tables without the products of the other stores, their mappings and
\* their cache entries
OwnProducts(store) == SelectSeq(store_products, LAMBDA p : p.store = store)
OwnMappings(store) ==
    SelectSeq(canonical_to_store_product,
              LAMBDA m : ProductById(store_products, m.store_product_id).store = store)
OwnCache(store) ==
    {row \in price_cache : ProductById(store_products, row.store_product_id).store = store}

\* the quote of a store computed from the request and from the store's own rows
QuoteOfOwnRows(store) ==
    LET r == Aggregate(canonical_items, body.items, 1, <<>>, <<>>)
        mappingRows == SelectMappingRows(OwnMappings(store), OwnProducts(store),
                                         canonicalIdsOf(r.aggregated), store)
        byCanonical == BuildMappingByCanonical(mappingRows, r.aggregated)
        cacheRows == SelectCacheRows(OwnCache(store), storeProductIdsOf(byCanonical),
                                     CachePostcode)
    IN quoteStore(store, r.aggregated, r.baseMissingItems, byCanonical, cacheRows, nowMs)

\* C22: an answered request has one StoreQuote per entry of its stores list, in
\* the order of the list; each is the quote that the store's own mappings,
\* products and cache entries give, whatever the rows of the other stores are;
\* and the aggregated requirements and the aggregation's missing list are, after
\* all stores are quoted, still what the aggregation made of the request.
C22_StoreQuotedFromOwnRows ==
    Replied(200) =>
        LET qs == Val(response).body.quotes
            r == Aggregate(canonical_items, body.items, 1, <<>>, <<>>)
        IN /\ Len(qs) = Len(body.stores)
           /\ \A i \in DOMAIN qs :
                 /\ qs[i].store = body.stores[i]
                 /\ qs[i] = QuoteOfOwnRows(body.stores[i])
           /\ aggregated = r.aggregated
           /\ baseMissingItems = r.baseMissingItems

\* two stores quoted for one canonical item that both sell, at different prices
C22_Witness ==
    /\ Replied(200)
    /\ Len(body.stores) = 2
    /\ LET qs == Val(response).body.quotes
       IN /\ Len(qs[1].lineItems) = 1 /\ Len(qs[2].lineItems) = 1
          /\ qs[1].lineItems[1].canonicalItemId = qs[2].lineItems[1].canonicalItemId
          /\ qs[1].lineItems[1].price # qs[2].lineItems[1].price

\* -------------------------------------------------------------------- C23
MaxFetchedAt(lines) ==
    CHOOSE t \in {l.fetchedAt : l \in Range(lines)} : \A l \in Range(lines) : l.fetchedAt <= t

\* C23: a StoreQuote with at least one line item has the greatest fetchedAt of
\* its line items as lastUpdated, and one without line items has the time of
\* the request.
C23_LastUpdatedIsLatestFetch ==
    \A q \in Range(quotes) :
        q.lastUpdated = IF q.lineItems # <<>> THEN MaxFetchedAt(q.lineItems) ELSE nowMs

\* a quote whose first line was fetched after its second, next to an entry
\* fetched later still whose product is not quoted
C23_Witness ==
    /\ Replied(200)
    /\ \E q \in Range(Val(response).body.quotes) :
          /\ Len(q.lineItems) = 2
          /\ q.lineItems[1].fetchedAt > q.lineItems[2].fetchedAt
          /\ q.lastUpdated = q.lineItems[1].fetchedAt
          /\ \E row \in price_cache :
                row.postcode_area = CachePostcode /\ row.fetched_at > q.lastUpdated

C23_WitnessNoLine ==
    /\ Replied(200)
    /\ \E q \in Range(Val(response).body.quotes) :
          /\ q.lineItems = <<>>
          /\ q.lastUpdated = RequestTime
          /\ \E mi \in Range(q.missingItems) : mi.reason = "no_cached_price"

\* -------------------------------------------------------------------- C24
\* the unit family of an ingredient of the menu
FamilyAt(m, p) == normalizeUnit(IngredientAt(m, p).unit, RatOfInt(1)).unit

\* C24: quantities of different unit families are never added together: the
\* value of every quote request item is the sum of the contributions of its
\* own unit family alone, and every ingredient counted in it is of that family.
C24_UnitFamiliesNeverMixed ==
    ~IsNull(quoteItems) =>
        \A it \in Range(Val(quoteItems)) :
            LET counted == {p \in QuotePairs(stateMenu) :
                               toLowerCase(trim(RawNameAt(stateMenu, p))) = KeyOfItem(it)}
                ofFamily == {p \in counted : FamilyAt(stateMenu, p) = it.required.unit}
            IN /\ counted = ofFamily
               /\ it.required.value = SumNormalized(stateMenu, ofFamily)

\* -------------------------------------------------------------------- C25
\* a run of refresh-prices that has read the cache, and one that has answered
\* with counts for the products it selected
RefreshClassified == refreshPc \in {"provider", "upsert"} \/ ~IsNull(refreshResponse)
RefreshAnswered ==
    /\ ~IsNull(refreshResponse)
    /\ Val(refreshResponse).status = 200
    /\ storeProducts # <<>>
RefreshBucket == RegionBucket(refreshBody.postcode)

\* the entry the run found for a product in the bucket of its request
EntriesFound(id) ==
    {row \in cacheMap : row.store_product_id = id /\ row.postcode_area = RefreshBucket}
FoundFresh(id) == \E row \in EntriesFound(id) : refreshNowMs < row.ttl_expires_at
UsableProviderId(id) ==
    LET providerId == trim(provider_product_id[id])
    IN providerId # <<>> /\ ~(Len(providerId) >= 5 /\ SubSeq(providerId, 1, 5) = TODO_PREFIX)
SelectedIds == {storeProducts[i].id : i \in DOMAIN storeProducts}

OneEntryPerKey ==
    \A r1, r2 \in price_cache :
        r1.store_product_id = r2.store_product_id /\ r1.postcode_area = r2.postcode_area
            => r1 = r2

FreshEntriesSkipped ==
    (RefreshClassified /\ cacheMap # {} /\ ~refreshBody.force) =>
        /\ \A id \in SelectedIds :
              FoundFresh(id) => id \notin fetchedIds /\ EntriesFound(id) \subseteq price_cache
        /\ skippedFresh = Cardinality({id \in SelectedIds : FoundFresh(id)})

ForceFetchesUsable ==
    (RefreshAnswered /\ refreshBody.force) =>
        /\ skippedFresh = 0
        /\ fetchedIds = {id \in SelectedIds : UsableProviderId(id)}

\* C25, as stated: without force a selected product with a fresh entry in the
\* bucket of the request is neither fetched nor overwritten and is counted in
\* skippedFresh; with force every selected product with a usable provider id is
\* fetched; a selected product whose entry is missing or stale is fetched in
\* both modes; and the cache holds at most one entry per (storeProductId,
\* regionBucket).
C25_MissingOrStaleAlwaysFetched ==
    /\ OneEntryPerKey
    /\ FreshEntriesSkipped
    /\ ForceFetchesUsable
    /\ RefreshAnswered =>
          \A id \in SelectedIds : ~FoundFresh(id) => id \in fetchedIds

\* C25, amended: the same, where a selected product whose entry is missing or
\* stale is fetched in both modes if its provider id is usable, and is counted
\* as failed without a fetch in both modes if it is not.
C25_MissingOrStaleFetchedIfUsable ==
    /\ OneEntryPerKey
    /\ FreshEntriesSkipped
    /\ ForceFetchesUsable
    /\ RefreshAnswered =>
          \A id \in SelectedIds :
              ~FoundFresh(id) =>
                  /\ UsableProviderId(id) => id \in fetchedIds
                  /\ ~UsableProviderId(id) =>
                        /\ id \notin fetchedIds
                        /\ \E e \in Range(errors) :
                              e.storeProductId = id /\ e.reason = "missing_provider_url"

\* a second run without force that skips an entry the first run wrote and
\* leaves a product with a placeholder id and no fresh entry alone
C25_Witness ==
    /\ RefreshAnswered
    /\ refreshRuns = 2
    /\ ~refreshBody.force
    /\ \E id \in SelectedIds :
          FoundFresh(id) /\ EntriesFound(id) \cap PriceCacheRows = {}
    /\ \E id \in SelectedIds \ fetchedIds : ~UsableProviderId(id) /\ ~FoundFresh(id)

\* a run that fetches a product whose entry has expired and one without entry
C25_WitnessFetched ==
    /\ RefreshAnswered
    /\ \E id \in SelectedIds \cap fetchedIds : EntriesFound(id) = {}
    /\ \E id \in SelectedIds \cap fetchedIds : EntriesFound(id) # {} /\ ~FoundFresh(id)

\* -------------------------------------------------------------------- C26
\* C26: when a request settles whose run of the effect has been cleaned up (the
\* menu changed or the component unmounted since it was scheduled), quotes,
\* error and lastSuccessRef stay as they are; and a request is only ever sent
\* by the timer of the latest run of the effect, for the menu as it is now, so
\* a timer that a later change has superseded sends nothing.
C26_SupersededRequestIgnored ==
    [][/\ \A e \in inFlight \ inFlight' :
             e # liveEffect => UNCHANGED <<hookQuotes, hookError, lastSuccessRef>>
       /\ \A e \in inFlight' \ inFlight :
             e = effectId /\ e = liveEffect /\ hookMounted /\ menu # "empty"
       /\ timer' # 0 => timer' = effectId']_vars

\* a request was sent, its menu was replaced by the empty menu, and it has
\* settled since: nothing of it has been taken
C26_Witness ==
    /\ hookMounted
    /\ effectId >= 3
    /\ isLoading
    /\ inFlight = {} /\ timer = 0
    /\ lastOutcome = "none"
    /\ IsNull(hookQuotes) /\ IsNull(hookError) /\ IsNull(lastSuccessRef)

\* -------------------------------------------------------------------- C27
\* no request is scheduled or in flight for the current payload
NoCurrentRequest == timer = 0 /\ liveEffect \notin inFlight

\* C27: while the component is mounted, whenever no request is scheduled or in
\* flight for the current payload, isLoading eventually becomes false.
C27_LoadingEventuallyEnds ==
    (hookMounted /\ NoCurrentRequest) ~> (~isLoading \/ ~hookMounted)

\* -------------------------------------------------------------------- C28
\* C28: for every line item with a non-negative required quantity and a
\* positive pack size, consumedEstimate <= lineTotal, and so for every store
\* quote consumedEstimate <= basketTotal, whatever unit price the cache entry
\* holds.
C28_ConsumedAtMostBought ==
    \A q \in Range(quotes) :
        /\ \A l \in Range(q.lineItems) :
               (l.required.value >= 0 /\ l.packSize.value > 0)
                   => RatLE(l.consumedEstimate, l.lineTotal)
        /\ q.consumedEstimate <= q.basketTotal

\* -------------------------------------------------------------------- C29
ReasonsOf(list) == {list[i].reason : i \in DOMAIN list}
ErrorIdsOf(list) == {list[i].storeProductId : i \in DOMAIN list}

\* C29: every refresh-prices response that reports counts satisfies
\* refreshed + skippedFresh + failed = total, each selected store product
\* being counted in exactly one of the three outcomes, in the bulk path and in
\* the per-product path, a provider call or an upsert that fails part-way
\* through a batch included.
C29_CountsAddUp ==
    (~IsNull(refreshResponse) /\ Val(refreshResponse).status = 200) =>
        LET counts == Val(refreshResponse).body
        IN /\ counts.refreshed + counts.skippedFresh + counts.failed = counts.total
           /\ counts.total = Len(storeProducts)
           /\ Len(counts.errors) = counts.failed
           /\ Cardinality(ErrorIdsOf(counts.errors)) = counts.failed
           /\ ErrorIdsOf(counts.errors) \subseteq SelectedIds

\* a bulk run has answered: of a batch of two one upsert failed and one went
\* through, the call for another batch threw, and a fresh entry was skipped
C29_Witness ==
    /\ RefreshAnswered
    /\ bulk
    /\ refreshed >= 1
    /\ skippedFresh >= 1
    /\ {"upsert failed", "Provider error"} \subseteq ReasonsOf(errors)

\* the same in the per-product path
C29_WitnessPerProduct ==
    /\ RefreshAnswered
    /\ ~bulk
    /\ refreshed >= 1
    /\ {"upsert failed", "Provider error", "missing_provider_url"} \subseteq ReasonsOf(errors)

\* -------------------------------------------------------------------- C30
NoDuplicateRecipe(m) == \A i, j \in DOMAIN m : m[i].recipeId = m[j].recipeId => i = j
OtherItems(m, recipeId) ==
    LET Other(item) == item.recipeId # recipeId IN SelectSeq(m, Other)

\* what the action dispatched in a step may have changed
C30_StepOf(action) ==
    /\ NoDuplicateRecipe(stateMenu')
    /\ stateFilters' = stateFilters
    /\ statePreferences' = statePreferences
    /\ (action.type = "ADD_TO_MENU" /\ InMenu(stateMenu, action.payload.recipeId))
          => UNCHANGED <<stateMenu, groceryList, stateFilters, statePreferences>>
    /\ action.type = "REMOVE_FROM_MENU"
          => /\ OtherItems(stateMenu', action.payload) = OtherItems(stateMenu, action.payload)
             /\ Len(stateMenu') >= Len(stateMenu) - 1
             /\ groceryList' = groceryList
    /\ action.type = "UPDATE_SERVINGS"
          => /\ Len(stateMenu') = Len(stateMenu)
             /\ \A i \in DOMAIN stateMenu :
                   /\ stateMenu'[i].recipeId = stateMenu[i].recipeId
                   /\ stateMenu[i].recipeId # action.payload.recipeId
                         => stateMenu'[i] = stateMenu[i]
             /\ groceryList' = groceryList

\* C30: after any sequence of ADD_TO_MENU, REMOVE_FROM_MENU, UPDATE_SERVINGS
\* and CLEAR_MENU actions from the initial state no two menu items share a
\* recipeId; ADD_TO_MENU of a recipe already in the menu leaves the state
\* unchanged, REMOVE_FROM_MENU and UPDATE_SERVINGS change only the item with
\* the given recipeId, and each action leaves filters and preferences unchanged.
C30_MenuKeepsOneItemPerRecipe ==
    [][C30_StepOf(Val(lastAction'))]_vars

\* an ADD_TO_MENU of a recipe that was in the menu with other servings has
\* just been dispatched, and the menu holds what it held
C30_Witness ==
    /\ ~IsNull(lastAction)
    /\ Val(lastAction).type = "ADD_TO_MENU"
    /\ Val(lastAction).payload = [recipeId |-> "r1", servings |-> 1]
    /\ stateMenu = <<[recipeId |-> "r1", servings |-> 2], [recipeId |-> "r9", servings |-> 1]>>

====
